---- MODULE Spec2Model ----
(***************************************************************************)
(* Model of the per-frame body IK of Skeleton (walk cycle, leg IK, arm IK, *)
(* frame pipeline).  Floating point values are fixed-point integers:      *)
(*   speeds in units/s, times in milliseconds, lengths in tenths of a     *)
(*   unit where stated, angles in hundredths of a degree.                 *)
(* Non-finite floats are the strings "NaN", "PInf", "NInf".               *)
(***************************************************************************)
EXTENDS Integers, Sequences, FiniteSets, TLC

VARIABLES
    \* ---- walk() state (Skeleton members and the function-local static) ----
    walkingState,      \* _walkingState: 0 Idle, 1 Walking, 2 Stopping, 3 Redirecting
    footStepping,      \* _footStepping: 0 none, 1 right, 2 left
    prevSpeed,         \* _prevSpeed
    currentStepTime,   \* _currentStepTime (ms)
    stepTimeinStep,    \* _stepTimeinStep (ms)
    delayFrame,        \* _delayFrame
    stepDir,           \* _stepDir
    footTarget,        \* [1 |-> _rightFootTarget, 2 |-> _leftFootTarget]
    footStart,         \* [1 |-> _rightFootStart,  2 |-> _leftFootStart]
    footPos,           \* [1 |-> _rightFootPos,    2 |-> _leftFootPos]
    spineAngle,        \* static float spineAngle (hundredths of a degree)
    wk,                \* the inputs of the last walk() call and its state after the switch
    walkFrames,        \* number of walk() calls so far, the ones counted by stillFrames apart
    stillFrames,       \* number of closing walk() calls in the air with no head displacement
    \* ---- leg chains (lengths in tenths of a unit) ----
    kneeLocalLen,      \* [side |-> |kneeNode->m_localTransform.pos|]
    footLocalLen,      \* [side |-> |footNode->m_localTransform.pos|]
    legPc,             \* the next leg step of the frame
    lg,                \* the inputs of the last setSingleLeg call
    \* ---- arm chains ----
    armLocal,          \* [side |-> [bone |-> local transform of the arm bone, 0 = bind]]
    prevAngle,         \* static std::array<float, 2> prevAngle (hundredths of a degree)
    handPrevFrame,     \* [side |-> _rightHandPrevFrame.pos / _leftHandPrevFrame.pos]
    armPc,             \* the next arm step of the frame
    armFrames,         \* number of frames so far
    lastNonFinite,     \* [side |-> the side's previous setArms call saw a non-finite hand]
    ar,                \* the inputs and outcome of the last setArms call
    \* ---- configuration and mode flags ----
    dampenHands,       \* g_config.dampenHands
    dampenHandsTranslation, \* g_config.dampenHandsTranslation (percent)
    inPowerArmor,      \* _inPowerArmor
    \* ---- onFrameUpdate() ----
    missing,           \* the bones absent from the loaded skeleton (getNode returns nullptr)
    armsOnly,          \* g_config.armsOnly
    framePc,           \* position in onFrameUpdate: 0 before the frame, then the next call
    crashed,           \* a null bone pointer was dereferenced and the frame did not go on
    trace,             \* the calls onFrameUpdate has made so far in the frame
    \* ---- the solvers' triangle on its own ----
    sv,                \* the last triangle solved: lengths, distance, segments used
    \* ---- the flattened bone tree (BSFlattenedBoneTree) ----
    bt,                \* refNode flags, local and world transforms, the nodes' own world
    \* ---- restoreNodesToDefault ----
    rs,                \* _skeletonNodesToDefaultTransforms and the bones' local transforms
    \* ---- getBoneWorldTransform ----
    bm,                \* _boneTreeMap, _boneTreeVec, the tree's transforms, the last lookup
    \* ---- calculateHandPose / setHandPose, one finger bone ----
    hp,                \* the frame's inputs, _handBones[bone].rot, the last call's outcome
    poseFrames,        \* number of calls so far
    \* ---- getNeckYaw ----
    ny,                \* the last call's inputs, weight, selected angle and result
    \* ---- GunReload ----
    gr,                \* state, reloadButtonPressed, the last Update's inputs and outcome
    \* ---- initializeNodes ----
    sk                 \* the scene graph scanned last and the setup data built from it

walkVars == <<walkingState, footStepping, prevSpeed, currentStepTime, stepTimeinStep,
              delayFrame, stepDir, footTarget, footStart, footPos, spineAngle, wk,
              walkFrames, stillFrames>>

legVars == <<kneeLocalLen, footLocalLen, legPc, lg>>

armVars == <<armLocal, prevAngle, handPrevFrame, armPc, armFrames, lastNonFinite, ar>>

cfgVars == <<dampenHands, dampenHandsTranslation, inPowerArmor>>

frameVars == <<missing, armsOnly, framePc, crashed, trace>>

coreVars == <<walkVars, legVars, armVars, cfgVars, frameVars>>

solveVars == <<sv>>

treeVars == <<bt>>

resetVars == <<rs>>

mapVars == <<bm>>

poseVars == <<hp, poseFrames>>

neckVars == <<ny>>

gunVars == <<gr>>

setupVars == <<sk>>

auxVars == <<solveVars, treeVars, resetVars, mapVars, poseVars, neckVars, gunVars, setupVars>>

vars == <<coreVars, auxVars>>

-----------------------------------------------------------------------------
(* Bounds of the model *)
MaxWalkFrames == 2
MaxStillFrames == 3
MaxTurnFrames == 6
MaxArmFrames == 2
MaxMissing == 1
MaxStageWrites == 2
MaxLookups == 2
MaxPoseFrames == 1
MaxInits == 2

-----------------------------------------------------------------------------
(* Small arithmetic helpers *)
Min(a, b) == IF a < b THEN a ELSE b
Max(a, b) == IF a > b THEN a ELSE b
Clamp(x, lo, hi) == IF x < lo THEN lo ELSE IF x > hi THEN hi ELSE x
Abs(x) == IF x < 0 THEN -x ELSE x

\* floor of the square root of n >= 0, by bisection on lo <= sqrt(n) < hi
RECURSIVE SqrtBetween(_, _, _)
SqrtBetween(n, lo, hi) ==
    IF hi - lo <= 1 THEN lo
    ELSE LET mid == (lo + hi) \div 2
         IN IF mid * mid <= n THEN SqrtBetween(n, mid, hi) ELSE SqrtBetween(n, lo, mid)
ISqrt(n) == IF n <= 0 THEN 0 ELSE SqrtBetween(n, 0, Min(n, 46340) + 1)

VAdd(a, b) == <<a[1] + b[1], a[2] + b[2], a[3] + b[3]>>
VSub(a, b) == <<a[1] - b[1], a[2] - b[2], a[3] - b[3]>>
VScale(a, k) == <<a[1] * k, a[2] * k, a[3] * k>>
VDot(a, b) == a[1] * b[1] + a[2] * b[2] + a[3] * b[3]
SetZ(a, z) == <<a[1], a[2], z>>
Zero3 == <<0, 0, 0>>
VLen(a) == ISqrt(VDot(a, a))

\* cos(s / 140) in thousandths, s a speed in 0..350 (Taylor series in fixed point)
CosSpeedMilli(s) ==
    LET x2 == (s * s * 10) \div 196
        x4 == (x2 * x2) \div 1000
        x6 == (x4 * x2) \div 1000
        x8 == (x6 * x2) \div 1000
    IN 1000 - (x2 \div 2) + (x4 \div 24) - (x6 \div 720) + (x8 \div 40320)

\* sin(pi * t) in thousandths, t in thousandths of 0..1 (Bhaskara's approximation)
SinPiMilli(t) ==
    LET p == (t * (1000 - t)) \div 1000
    IN (16000 * p) \div (5000 - 4 * p)

-----------------------------------------------------------------------------
(* IEEE floats: a finite value, NaN or an infinity *)
Fin(v) == [k |-> "fin", v |-> v]
NaN == [k |-> "nan", v |-> 0]
PInf == [k |-> "pinf", v |-> 0]
NInf == [k |-> "ninf", v |-> 0]

IsNaN(a) == a.k = "nan"
IsInf(a) == a.k \in {"pinf", "ninf"}
IsFinite(a) == a.k = "fin"
FNeg(a) == CASE a.k = "fin" -> Fin(-a.v) [] a.k = "pinf" -> NInf [] a.k = "ninf" -> PInf
             [] OTHER -> NaN
FAdd(a, b) ==
    CASE IsNaN(a) \/ IsNaN(b) -> NaN
      [] IsFinite(a) /\ IsFinite(b) -> Fin(a.v + b.v)
      [] IsInf(a) /\ IsInf(b) -> IF a.k = b.k THEN a ELSE NaN
      [] IsInf(a) -> a
      [] OTHER -> b
FSub(a, b) == FAdd(a, FNeg(b))
\* a * (pct / 100), pct a finite non-negative number
FMulPct(a, pct) ==
    CASE IsNaN(a) -> NaN
      [] IsFinite(a) -> Fin((a.v * pct) \div 100)
      [] OTHER -> IF pct = 0 THEN NaN ELSE a
\* a > x for a finite x: false for NaN
FGtNum(a, x) ==
    CASE a.k = "fin" -> a.v > x [] a.k = "pinf" -> TRUE [] OTHER -> FALSE
\* (std::max)(a, x) = a < x ? x : a
FMaxNum(a, x) ==
    CASE a.k = "fin" -> Fin(Max(a.v, x)) [] a.k = "ninf" -> Fin(x) [] OTHER -> a

FVAdd(a, b) == <<FAdd(a[1], b[1]), FAdd(a[2], b[2]), FAdd(a[3], b[3])>>
FVSub(a, b) == <<FSub(a[1], b[1]), FSub(a[2], b[2]), FSub(a[3], b[3])>>
FVMulPct(a, pct) == <<FMulPct(a[1], pct), FMulPct(a[2], pct), FMulPct(a[3], pct)>>
FVec(v) == <<Fin(v[1]), Fin(v[2]), Fin(v[3])>>
\* vec3Len
FVLen(a) ==
    IF \E i \in 1..3 : IsNaN(a[i]) THEN NaN
    ELSE IF \E i \in 1..3 : IsInf(a[i]) THEN PInf
    ELSE Fin(VLen(<<a[1].v, a[2].v, a[3].v>>))

-----------------------------------------------------------------------------
(* walk(): src/unnamed/part_000 lines 484-692 *)

\* the scene the walk cycle reads: feet as placed by the body placement stages
FootRawL == <<-10, 0, 2>>
FootRawR == <<10, 0, 2>>
RootZ == 0

\* lines 501-506: move feet closer together
LeftToRight(pa) ==
    LET d == VSub(FootRawR, FootRawL)
    IN IF pa THEN <<(d[1] * (-15)) \div 100, (d[2] * (-15)) \div 100, (d[3] * (-15)) \div 100>>
       ELSE <<(d[1] * 3) \div 10, (d[2] * 3) \div 10, (d[3] * 3) \div 10>>
FootW(f, pa) == IF f = 2 THEN VAdd(FootRawL, LeftToRight(pa)) ELSE VSub(FootRawR, LeftToRight(pa))

\* line 516: clamp(|dir| / _frameTime, 0, 350); disp in thousandths of a unit, dt in ms
RawSpeed(disp, dt) == Clamp(disp \div dt, 0, 350)

\* the speed of the frame without the averaging
CurSpeedUnsmoothed(disp, dt, prev) == RawSpeed(disp, dt)

\* lines 516-519
CurSpeed(disp, dt, prev) ==
    IF prev > 20 THEN (RawSpeed(disp, dt) + prev) \div 2 ELSE RawSpeed(disp, dt)

\* line 521: clamp(cos(curSpeed / 140), 0.28, 0.50), in ms
StepTime(cur) == Clamp(CosSpeedMilli(cur), 280, 500)

\* a trigger on any loss of speed
DeceleratingAny(cur, prev) == cur < prev

\* lines 524-527: the deceleration trigger
Decelerating(cur, prev) == cur - prev < -20

\* curSpeed * stepTime * 1.5f and curSpeed * stepTime * 0.1f, in units
StartStepLen(cur, st) == (cur * st * 15) \div 10000
RedirectStepLen(cur, st) == (cur * st) \div 10000

\* line 612: min(curSpeed * stepTime * 1.5, 140)
StepScale(cur, st) == Min((cur * st * 15) \div 10000, 140)

\* the walk members as one record
WalkRec == [ws |-> walkingState, fs |-> footStepping, cst |-> currentStepTime,
            stis |-> stepTimeinStep, df |-> delayFrame, sd |-> stepDir,
            tgt |-> footTarget, start |-> footStart, pos |-> footPos, sa |-> spineAngle]

\* lines 536-566: case 0 (Idle)
SwitchIdle(w, cur, st, dir, pick, pa) ==
    IF cur >= 35
    THEN [w EXCEPT !.ws = 1, !.fs = pick, !.sd = dir, !.stis = st, !.df = 2,
                   !.tgt = [f \in {1, 2} |->
                              IF f = pick THEN VAdd(FootW(f, pa), VScale(dir, StartStepLen(cur, st)))
                              ELSE FootW(f, pa)],
                   !.start = [f \in {1, 2} |-> FootW(f, pa)],
                   !.pos = [f \in {1, 2} |-> FootW(f, pa)],
                   !.cst = st \div 2]
    ELSE [w EXCEPT !.cst = 0, !.fs = 0, !.sa = 0]

\* lines 567-573: case 1 (Walking)
SwitchWalking(w, cur) ==
    IF cur < 20 THEN [w EXCEPT !.ws = 2, !.cst = 0] ELSE w

\* lines 574-580: case 2 (Stopping)
SwitchStopping(w, cur) ==
    IF cur >= 20 THEN [w EXCEPT !.ws = 1, !.cst = 0] ELSE w

\* lines 581-590: case 3 (Redirecting)
SwitchRedirecting(w, cur, st, dir, pa) ==
    LET f == IF w.fs = 1 THEN 1 ELSE 2
    IN [w EXCEPT !.sd = dir,
                 !.tgt[f] = VAdd(FootW(f, pa), VScale(dir, RedirectStepLen(cur, st))),
                 !.ws = 1]

\* lines 524-527: if decelerating reset target
AfterTrigger(w, cur, prev) ==
    IF Decelerating(cur, prev) THEN [w EXCEPT !.ws = 3] ELSE w

\* lines 524-598: deceleration trigger, then the switch on the walking state
WalkSwitch(w, cur, prev, st, dir, air, pick, pa) ==
    LET w1 == AfterTrigger(w, cur, prev)
    IN IF ~air
       THEN CASE w1.ws = 0 -> SwitchIdle(w1, cur, st, dir, pick, pa)
              [] w1.ws = 1 -> SwitchWalking(w1, cur)
              [] w1.ws = 2 -> SwitchStopping(w1, cur)
              [] w1.ws = 3 -> SwitchRedirecting(w1, cur, st, dir, pa)
              [] OTHER -> [w1 EXCEPT !.ws = 0]
       ELSE [w1 EXCEPT !.ws = 0]

\* standing still with the foot positions left as they were
ProcessIdleNoLock(w, pa) == w

\* lines 600-608: standing still
ProcessIdle(w, pa) ==
    [w EXCEPT !.pos = [f \in {1, 2} |-> SetZ(FootW(f, pa), RootZ)]]

\* a direction correction that does not wait for the counter
CorrectDirectionNoDelay(w, f, dir, dirOffset) ==
    IF VDot(dir, w.sd) * 10 < 9
    THEN [w EXCEPT !.tgt[f] = VAdd(w.tgt[f], dirOffset), !.sd = dir, !.df = 2]
    ELSE [w EXCEPT !.df = IF w.df = 2 THEN w.df ELSE w.df + 1]

\* lines 624-634 / 643-653: direction correction of the in-flight target
CorrectDirection(w, f, dir, dirOffset) ==
    IF VDot(dir, w.sd) * 10 < 9
    THEN IF w.df = 0
         THEN [w EXCEPT !.tgt[f] = VAdd(w.tgt[f], dirOffset), !.sd = dir, !.df = 2]
         ELSE [w EXCEPT !.df = w.df - 1]
    ELSE [w EXCEPT !.df = IF w.df = 2 THEN w.df ELSE w.df + 1]

\* line 620: clamp(frameStep * (_currentStepTime / _frameTime), 0, 1), in thousandths
Interp(cst, stis) == IF stis = 0 THEN 1000 ELSE Clamp((cst * 1000) \div stis, 0, 1000)

\* lines 635-641 / 654-660: move the stepping foot along its step
MoveFoot(w, f, interp) ==
    LET tgt == SetZ(w.tgt[f], RootZ)
        start == SetZ(w.start[f], RootZ)
        d == VSub(tgt, start)
        flat == <<start[1] + (d[1] * interp) \div 1000, start[2] + (d[2] * interp) \div 1000,
                  start[3] + (d[3] * interp) \div 1000>>
        stepAmount == Clamp((VLen(d) * 1000) \div 150, 0, 1000)
        stepHeight == Max(stepAmount * 9, 1000)
        up == (SinPiMilli(interp) * stepHeight) \div 1000000
    IN [w EXCEPT !.tgt[f] = tgt, !.start[f] = start, !.pos[f] = SetZ(flat, flat[3] + up)]

\* lines 669-684: the step is over, the other foot steps
SwapStep(w, st, dir, scale, pa) ==
    IF w.cst > st
    THEN LET g == IF w.fs = 1 THEN 2 ELSE 1
         IN [w EXCEPT !.cst = 0, !.sd = dir, !.stis = st, !.fs = g,
                      !.tgt[g] = VAdd(FootW(g, pa), VScale(dir, scale)),
                      !.start[g] = w.pos[g]]
    ELSE w

\* lines 609-686: walking
ProcessWalking(w, cur, st, dir, dt, pa) ==
    LET scale == StepScale(cur, st)
        dirOffset == VScale(VSub(dir, w.sd), scale)
        f == IF w.fs = 1 THEN 1 ELSE 2
        sign == IF w.fs = 1 THEN -1 ELSE 1
        w1 == [w EXCEPT !.cst = w.cst + dt]
        interp == Interp(w1.cst, w1.stis)
        w2 == CorrectDirection(w1, f, dir, dirOffset)
        w3 == MoveFoot(w2, f, interp)
        w4 == [w3 EXCEPT !.sa = (sign * SinPiMilli(interp) * 300) \div 1000]
    IN SwapStep(w4, st, dir, scale, pa)

\* stopping that leaves the state at Stopping
ProcessStoppingKeepsState(w, pa) == [w EXCEPT !.pos = [f \in {1, 2} |-> FootW(f, pa)]]

\* lines 687-691: stopping
ProcessStopping(w, pa) ==
    [w EXCEPT !.pos = [f \in {1, 2} |-> FootW(f, pa)], !.ws = 0]

\* lines 600-692
WalkProcess(w, cur, st, dir, dt, pa) ==
    CASE w.ws = 0 -> ProcessIdle(w, pa)
      [] w.ws = 1 -> ProcessWalking(w, cur, st, dir, dt, pa)
      [] w.ws = 2 -> ProcessStopping(w, pa)
      [] OTHER -> w

\* per-frame samples: frame time (ms), horizontal head displacement (thousandths of a unit)
FrameTimes == {100, 300}
Displacements == {0, 3600, 40000}
Dirs == {<<1, 0, 0>>, <<0, 1, 0>>}
\* vec3Norm of the null displacement: a fixed axis
ZeroDirs == {<<1, 0, 0>>}

NoWalkCall == [n |-> 0, early |-> FALSE, start |-> 0, disp |-> 0, cur |-> 0, prev |-> 0,
               st |-> 0,
               dir |-> Zero3, air |-> FALSE, dt |-> 0, trig |-> 0,
               mid |-> [ws |-> 0, fs |-> 0, cst |-> 0, stis |-> 0,
                        tgt |-> [f \in {1, 2} |-> Zero3], df |-> 0, sd |-> Zero3],
               before |-> [fs |-> 0, cst |-> 0, stis |-> 0,
                           tgt |-> [f \in {1, 2} |-> Zero3]],
               corr |-> FALSE, since |-> 2]

WalkInit ==
    /\ walkingState = 0
    /\ footStepping = 0
    /\ prevSpeed = 0
    /\ currentStepTime = 0
    /\ stepTimeinStep = 0
    /\ delayFrame = 0
    /\ stepDir = Zero3
    /\ footTarget = [f \in {1, 2} |-> Zero3]
    /\ footStart = [f \in {1, 2} |-> Zero3]
    /\ footPos = [f \in {1, 2} |-> Zero3]
    /\ spineAngle = 0
    /\ wk = NoWalkCall
    /\ walkFrames = 0
    /\ stillFrames = 0

SetWalk(w) ==
    /\ walkingState' = w.ws
    /\ footStepping' = w.fs
    /\ currentStepTime' = w.cst
    /\ stepTimeinStep' = w.stis
    /\ delayFrame' = w.df
    /\ stepDir' = w.sd
    /\ footTarget' = w.tgt
    /\ footStart' = w.start
    /\ footPos' = w.pos
    /\ spineAngle' = w.sa

\* walk() with all leg bones present; wk keeps the call's inputs, the state after the
\* deceleration trigger (trig), after the switch (mid) and the members before the call
Walk(dt, disp, dir, air, pick) ==
    LET cur == CurSpeed(disp, dt, prevSpeed)
        st == StepTime(cur)
        mid == WalkSwitch(WalkRec, cur, prevSpeed, st, dir, air, pick, inPowerArmor)
        end == WalkProcess(mid, cur, st, dir, dt, inPowerArmor)
        f == IF mid.fs = 1 THEN 1 ELSE 2
        \* the walking block moved the stepping foot's target sideways
        corr == mid.ws = 1 /\ <<end.tgt[f][1], end.tgt[f][2]>> # <<mid.tgt[f][1], mid.tgt[f][2]>>
        \* the Idle case started a step
        started == walkingState = 0 /\ mid.ws = 1 /\ mid.fs # footStepping
    IN /\ pick = 1 \/ (~air /\ walkingState = 0 /\ cur >= 35 /\ ~Decelerating(cur, prevSpeed))
       /\ SetWalk(end)
       /\ prevSpeed' = cur
       /\ wk' = [n |-> walkFrames + stillFrames + 1, early |-> FALSE, start |-> walkingState,
                 disp |-> disp, cur |-> cur,
                 prev |-> prevSpeed, st |-> st, dir |-> dir, air |-> air, dt |-> dt,
                 trig |-> AfterTrigger(WalkRec, cur, prevSpeed).ws,
                 mid |-> [ws |-> mid.ws, fs |-> mid.fs, cst |-> mid.cst, stis |-> mid.stis,
                          tgt |-> mid.tgt, df |-> mid.df, sd |-> mid.sd],
                 before |-> [fs |-> footStepping, cst |-> currentStepTime,
                             stis |-> stepTimeinStep, tgt |-> footTarget],
                 corr |-> corr,
                 since |-> IF corr \/ started THEN 0 ELSE Min(wk.since + 1, 2)]
       /\ UNCHANGED <<legVars, armVars, cfgVars, frameVars, auxVars>>

\* lines 485-499: a hip, knee or foot node is missing, walk() returns at once
WalkMissingBone ==
    /\ walkFrames < MaxWalkFrames
    /\ stillFrames = 0
    /\ walkFrames' = walkFrames + 1
    /\ wk' = [NoWalkCall EXCEPT !.n = walkFrames + stillFrames + 1, !.early = TRUE,
                                !.start = walkingState, !.prev = prevSpeed,
                                !.since = wk.since]
    /\ UNCHANGED <<stillFrames, walkingState, footStepping, prevSpeed, currentStepTime, stepTimeinStep,
                   delayFrame, stepDir, footTarget, footStart, footPos, spineAngle,
                   legVars, armVars, cfgVars, frameVars, auxVars>>

\* one frame's walk() call with any of the sampled inputs
WalkFrame(dt, disp, dir, air, pick) ==
    /\ walkFrames < MaxWalkFrames
    /\ stillFrames = 0
    /\ Walk(dt, disp, dir, air, pick)
    /\ walkFrames' = walkFrames + 1
    /\ UNCHANGED stillFrames

\* one more frame's walk() call, the player in the air with no head displacement;
\* such frames close a run
WalkStillInAir(dt, dir) ==
    /\ stillFrames < MaxStillFrames
    /\ Walk(dt, 0, dir, TRUE, 1)
    /\ stillFrames' = stillFrames + 1
    /\ UNCHANGED walkFrames

\* one frame's walk() call on the ground at 100 ms, the head moving fast along a
\* sampled direction or not at all
TurnFrame(disp, dir, pick) ==
    /\ walkFrames < MaxTurnFrames
    /\ Walk(100, disp, dir, FALSE, pick)
    /\ walkFrames' = walkFrames + 1
    /\ UNCHANGED stillFrames

TurnNext ==
    \/ \E dir \in Dirs, pick \in {1, 2} : TurnFrame(40000, dir, pick)
    \/ \E dir \in ZeroDirs : TurnFrame(0, dir, 1)

WalkNext ==
    \/ \E dt \in FrameTimes, disp \in Displacements \ {0}, dir \in Dirs, air \in BOOLEAN,
          pick \in {1, 2} : WalkFrame(dt, disp, dir, air, pick)
    \/ \E dt \in FrameTimes, dir \in ZeroDirs, air \in BOOLEAN, pick \in {1, 2} :
          WalkFrame(dt, 0, dir, air, pick)
    \/ \E dt \in FrameTimes, dir \in ZeroDirs : WalkStillInAir(dt, dir)
    \/ WalkMissingBone


-----------------------------------------------------------------------------
(* setSingleLeg(): src/unnamed/part_000 lines 695-771; lengths in tenths of a unit *)

Sides == {"right", "left"}

\* |LLeg_Calf pos| and |LLeg_Foot pos| of the default transforms (lines 1560-1564, 1595-1599)
BindThigh(pa) == IF pa THEN 343 ELSE 316
BindCalf(pa) == IF pa THEN 525 ELSE 319

\* hip-to-target distances and world scales (percent) a frame can present
LegTargets == {0, 100, 500, 640, 1200}
ScalePcts == {80, 100, 125}

\* line 721: max(vec3Len(footToHip), 0.1f)
FtLen(d) == Max(d, 1)

\* lines 723-728: stretch both segments when the target is out of reach
Stretch(thigh, calf, ft) ==
    IF ft > thigh + calf
    THEN LET diff == ft - thigh - calf
             calfPart == (calf * diff) \div (calf + thigh)
         IN [thigh |-> thigh + (diff - calfPart) + 1, calf |-> calf + calfPart + 1]
    ELSE [thigh |-> thigh, calf |-> calf]

\* acosf of (calf^2 + ft^2 - thigh^2) / (2 calf ft) is NaN: the argument is outside [-1, 1]
AcosIsNaN(thigh, calf, ft) ==
    Abs(calf * calf + ft * ft - thigh * thigh) > 2 * calf * ft

\* the stretched lengths used with no fallback
SolveLensNoFallback(thighOrig, calfOrig, ft) == Stretch(thighOrig, calfOrig, ft)

\* lines 732-736: the segment lengths the knee is placed with
SolveLens(thighOrig, calfOrig, ft) ==
    LET s == Stretch(thighOrig, calfOrig, ft)
    IN IF AcosIsNaN(s.thigh, s.calf, ft)
       THEN [thigh |-> (thighOrig + calfOrig) \div 2, calf |-> (thighOrig + calfOrig) \div 2]
       ELSE s

\* lines 738-742: the knee in the plane of the leg, the foot at the origin and the hip
\* at distance d on the x axis; xDist = cos(footAngle) * calfLen, yDist = sin(footAngle) * calfLen
KneeXY(l, ft) ==
    LET xDist == (l.calf * l.calf + ft * ft - l.thigh * l.thigh) \div (2 * ft)
        ySq == l.calf * l.calf - xDist * xDist
    IN <<xDist, ISqrt(ySq), 0>>

\* the local position left at its solved length
UncappedLen(len, orig) == len

\* lines 762-764 / 768-770: cap a local position at the length the bone had on entry
CapLen(len, orig) == IF len > orig THEN orig ELSE len

\* lines 761 and 767: |Twr' * (kneePos - hipPos) / Tws| and |Cwr' * (footPos - kneePos) / Cws|
SolvedLocalLens(thighOrig, calfOrig, d, scale) ==
    LET ft == FtLen(d)
        l == SolveLens(thighOrig, calfOrig, ft)
        knee == KneeXY(l, ft)
    IN [knee |-> (VLen(VSub(knee, <<d, 0, 0>>)) * 100) \div scale,
        foot |-> (VLen(knee) * 100) \div scale]

NoLegCall == [n |-> 0, side |-> "right", d |-> 0, scale |-> 100, thighOrig |-> 0,
              calfOrig |-> 0]

LegInit ==
    /\ kneeLocalLen = [s \in Sides |-> BindThigh(inPowerArmor)]
    /\ footLocalLen = [s \in Sides |-> BindCalf(inPowerArmor)]
    /\ legPc = "restore"
    /\ lg = NoLegCall

\* restoreNodesToDefault (lines 256-260) on the leg bones
LegRestore ==
    /\ legPc = "restore"
    /\ kneeLocalLen' = [s \in Sides |-> BindThigh(inPowerArmor)]
    /\ footLocalLen' = [s \in Sides |-> BindCalf(inPowerArmor)]
    /\ legPc' = "right"
    /\ lg' = NoLegCall
    /\ UNCHANGED <<walkVars, armVars, cfgVars, frameVars, auxVars>>

\* setSingleLeg(isLeft) with all three bones of the leg present
SetSingleLeg(side, d, scale) ==
    LET thighOrig == kneeLocalLen[side]
        calfOrig == footLocalLen[side]
        r == SolvedLocalLens(thighOrig, calfOrig, d, scale)
    IN /\ legPc = side
       /\ kneeLocalLen' = [kneeLocalLen EXCEPT ![side] = CapLen(r.knee, thighOrig)]
       /\ footLocalLen' = [footLocalLen EXCEPT ![side] = CapLen(r.foot, calfOrig)]
       /\ legPc' = IF side = "right" THEN "left" ELSE "restore"
       /\ lg' = [n |-> 1, side |-> side, d |-> d, scale |-> scale, thighOrig |-> thighOrig,
                 calfOrig |-> calfOrig]
       /\ UNCHANGED <<walkVars, armVars, cfgVars, frameVars, auxVars>>

LegNext ==
    \/ LegRestore
    \/ \E side \in Sides, d \in LegTargets, scale \in ScalePcts : SetSingleLeg(side, d, scale)


-----------------------------------------------------------------------------
(* setArms() and dampenHand(): src/unnamed/part_000 lines 1002-1348, 1511-1545;  *)
(* positions and lengths in hundredths of a unit, relative to the upper arm node *)

ArmBones == {"shoulder", "upper", "forearm1", "forearm2", "forearm3", "hand"}

\* g_config.armLength at the value setArms divides it by (36.74f)
ArmLength == 3674

\* |ForeArm1 pos| and |Hand pos| (+ |ForeArm2 pos| + |ForeArm3 pos| out of power armor)
\* of the default transforms, lines 1125-1132
OriginalUpperLen(pa) == IF pa THEN 1954 ELSE 1797
OriginalForearmLen(pa) == IF pa THEN 2696 ELSE 1845

\* tracked hand positions a frame can present (the offset node's world position)
HandTracked ==
    {FVec(<<3000, 0, 0>>), FVec(<<10000, 0, 0>>), FVec(<<30000, 0, 0>>),
     <<NaN, Fin(0), Fin(0)>>, <<Fin(3000), PInf, Fin(0)>>}
\* player movement of the frame, _curentPosition - _lastPosition
PlayerMoves == {Zero3}
\* hand orientation of the frame: z of the hand's back and side vectors, in thousandths
HandRots == {[backZ |-> 0, sideZ |-> 500]}
\* the hand world position initializeNodes stores as previous frame (lines 73-74)
InitialHandPos == FVec(<<3000, 0, 0>>)

\* lines 1531-1535: node->m_worldTransform.pos -= (pos - prevFrame.pos - dir) * translation
DampenedPos(pos, prev, move, pct) ==
    FVSub(pos, FVMulPct(FVSub(FVSub(pos, prev), FVec(move)), pct))

\* lines 1511-1545: the node's world position after dampenHand
DampenHand(pos, prev, move, on, pct) ==
    IF on THEN DampenedPos(pos, prev, move, pct) ELSE pos

\* the validity test without its isnan terms
HandInvalidNoNaN(handPos) ==
    \/ \E i \in 1..3 : IsInf(handPos[i])
    \/ FGtNum(FVLen(handPos), 20000)

\* lines 1081-1083: the first-person hand position is invalid or over 200 units away
HandInvalid(handPos) ==
    \/ \E i \in 1..3 : IsNaN(handPos[i])
    \/ \E i \in 1..3 : IsInf(handPos[i])
    \/ FGtNum(FVLen(handPos), 20000)

\* lines 1091-1094: length of the shoulder offset, 0 up to half the arm length
ShrugOffset(len) ==
    IF IsFinite(len)
    THEN Fin((Clamp(len.v - ArmLength \div 2, 0, (ArmLength * 85) \div 100) * 8) \div 85)
    ELSE NaN

\* lines 1096-1105: the collarbone's local rotation, turned by the shoulder offset
ShrugPose(cur, len) ==
    LET o == ShrugOffset(len)
    IN IF IsFinite(o) THEN cur + o.v ELSE -1

\* line 1140: hsLen > (upperLen + forearmLen) * 2.25f
TooFar(hsLen, pa) ==
    FGtNum(FMulPct(hsLen, 100), ((OriginalUpperLen(pa) + OriginalForearmLen(pa)) * 225) \div 100)

\* asinf at the sample points, in hundredths of a degree
AsinCenti(x) ==
    CASE x = -999 -> -8744 [] x = -866 -> -6000 [] x = -599 -> -3680 [] x = -500 -> -3000
      [] x = 0 -> 0 [] x = 500 -> 3000 [] x = 866 -> 6000 [] x = 999 -> 8744

\* lines 1156-1168: the blended raw twist angle of the frame
BlendedTwist(rot) ==
    LET twistAngle == AsinCenti(Clamp(rot.backZ, -999, 999))
        twistAngle2 == -AsinCenti(Clamp(rot.sideZ, -599, 999))
        interpTwist == Clamp(((rot.backZ + 866) * 1155) \div 1000, 450, 800)
    IN twistAngle + (interpTwist * (twistAngle2 - twistAngle)) \div 1000

\* the twist angle taken over without smoothing
UnsmoothedTwist(prev, twist) == twist

\* line 1178: prevAngle + (twistAngle - prevAngle) * 0.25f
SmoothedTwist(prev, twist) == prev + (twist - prev) \div 4

\* one slot of the static array for both sides
AngleSlotShared(side) == 0

\* line 1177-1179: index of the side in the static array
AngleSlot(side) == IF side = "left" THEN 0 ELSE 1

\* lines 1254-1347: the local transforms the solve writes for the bones below the collarbone
SolvedPose(hsLen, twist) == IF IsFinite(hsLen) THEN 1 + hsLen.v + Abs(twist) ELSE -1
SolvedBones(pa) == IF pa THEN {"upper", "forearm1", "hand"}
                   ELSE {"upper", "forearm1", "forearm2", "forearm3", "hand"}

NoArmCall == [n |-> 0, side |-> "right", fp |-> TRUE, tracked |-> InitialHandPos,
              handPos |-> InitialHandPos, outcome |-> "none", A |-> 0, T |-> 0,
              twistUsed |-> 0, afterNonFinite |-> FALSE,
              before |-> [b \in ArmBones |-> 0]]

ArmInit ==
    /\ armLocal = [s \in Sides |-> [b \in ArmBones |-> 0]]
    /\ prevAngle = [i \in {0, 1} |-> 0]
    /\ handPrevFrame = [s \in Sides |-> InitialHandPos]
    /\ armPc = "restore"
    /\ armFrames = 0
    /\ lastNonFinite = [s \in Sides |-> FALSE]
    /\ ar = NoArmCall

\* restoreNodesToDefault (lines 256-260) on the arm bones
ArmRestore ==
    /\ armPc = "restore"
    /\ armFrames < MaxArmFrames
    /\ armFrames' = armFrames + 1
    /\ armLocal' = [s \in Sides |-> [b \in ArmBones |-> 0]]
    /\ armPc' = "right"
    /\ ar' = NoArmCall
    /\ UNCHANGED <<prevAngle, handPrevFrame, lastNonFinite, walkVars, legVars, cfgVars, frameVars, auxVars>>

NonFiniteVec(v) == \E i \in 1..3 : ~IsFinite(v[i])

\* setArms(isLeft): fp = the first-person skeleton exists, tracked = the offset node's
\* world position of the frame, move = the player's movement, rot = the hand orientation
SetArms(side, fp, tracked, move, rot) ==
    \E handPos \in {DampenHand(tracked, handPrevFrame[side], move, dampenHands,
                              dampenHandsTranslation)} :
    \E len \in {FVLen(handPos)} :
    \E hsLen \in {FMaxNum(len, 10)} :
    \E twistAngle \in {SmoothedTwist(prevAngle[AngleSlot(side)], BlendedTwist(rot))} :
    \E outcome \in {IF ~fp THEN "noskeleton"
                    ELSE IF HandInvalid(handPos) THEN "invalid"
                    ELSE IF TooFar(hsLen, inPowerArmor) THEN "toofar"
                    ELSE "solved"} :
    LET shrugged == [armLocal[side] EXCEPT !["shoulder"] = ShrugPose(@, len)]
        A == prevAngle[AngleSlot(side)]
        T == BlendedTwist(rot)
        solved == [b \in ArmBones |->
                     IF b \in SolvedBones(inPowerArmor) THEN SolvedPose(hsLen, twistAngle)
                     ELSE shrugged[b]]
    IN /\ armPc = side
       /\ armPc' = IF side = "right" THEN "left" ELSE "restore"
       /\ rot \in HandRots
       /\ fp \/ tracked = InitialHandPos
       /\ handPrevFrame' = IF fp /\ dampenHands
                           THEN [handPrevFrame EXCEPT ![side] = handPos]
                           ELSE handPrevFrame
       /\ armLocal' = [armLocal EXCEPT ![side] =
                          CASE outcome = "solved" -> solved
                            [] outcome = "toofar" -> shrugged
                            [] OTHER -> @]
       /\ prevAngle' = IF outcome = "solved"
                       THEN [prevAngle EXCEPT ![AngleSlot(side)] = twistAngle]
                       ELSE prevAngle
       /\ lastNonFinite' = IF fp THEN [lastNonFinite EXCEPT ![side] = NonFiniteVec(tracked)]
                           ELSE lastNonFinite
       /\ ar' = [n |-> 1, side |-> side, fp |-> fp, tracked |-> tracked,
                 handPos |-> IF fp THEN handPos ELSE tracked, outcome |-> outcome,
                 A |-> A, T |-> IF outcome = "solved" THEN T ELSE 0,
                 twistUsed |-> IF outcome = "solved" THEN twistAngle ELSE 0,
                 afterNonFinite |-> lastNonFinite[side],
                 before |-> armLocal[side]]
       /\ UNCHANGED <<armFrames, walkVars, legVars, cfgVars, frameVars, auxVars>>

ArmNext ==
    \/ ArmRestore
    \/ \E side \in Sides, fp \in BOOLEAN, tracked \in HandTracked, move \in PlayerMoves,
          rot \in HandRots : SetArms(side, fp, tracked, move, rot)

-----------------------------------------------------------------------------
(* onFrameUpdate(): src/unnamed/part_000 lines 161-243 *)

\* the skeleton bones the stages below look up
Bones == {"Head", "SPINE2", "COM", "Neck", "SPINE1",
          "LLeg_Thigh", "LLeg_Calf", "LLeg_Foot", "RLeg_Thigh", "RLeg_Calf", "RLeg_Foot",
          "LArm_UpperArm", "RArm_UpperArm", "L_Pauldron", "R_Pauldron"}

MissingSets == {m \in SUBSET Bones : Cardinality(m) <= MaxMissing}

\* the frame without its last world update (the one after selfieSkelly)
PipelineNoLastUpdate ==
    <<"restoreNodesToDefault", "updateDownFromRoot", "setupHead", "setBodyUnderHMD",
      "updateDownFromRoot", "setBodyPosture", "updateDownFromRoot", "setKneePos", "walk",
      "setSingleLeg_right", "setSingleLeg_left", "updateDownFromRoot",
      "handleLeftHandedWeaponNodesSwitch", "setArms_right", "setArms_left",
      "leftHandedModePipboy", "updateDownFromRoot", "pipboyAndWeapons", "cullPlayerGeometry",
      "selfieSkelly", "showOnlyArms", "setHandPose", "hideHands", "fixArmor">>

\* lines 173-242: the calls of onFrameUpdate in program order
Pipeline ==
    <<"restoreNodesToDefault", "updateDownFromRoot", "setupHead", "setBodyUnderHMD",
      "updateDownFromRoot", "setBodyPosture", "updateDownFromRoot", "setKneePos", "walk",
      "setSingleLeg_right", "setSingleLeg_left", "updateDownFromRoot",
      "handleLeftHandedWeaponNodesSwitch", "setArms_right", "setArms_left",
      "leftHandedModePipboy", "updateDownFromRoot", "pipboyAndWeapons", "cullPlayerGeometry",
      "selfieSkelly", "updateDownFromRoot", "showOnlyArms", "setHandPose", "hideHands",
      "fixArmor">>

\* the conditions under which onFrameUpdate makes a call: hideHead is g_config.hideHead,
\* scope is g_frik.isInScopeMenu()
StageCalled(name, hideHead, scope) ==
    CASE name = "setupHead" -> ~hideHead
      [] name = "walk" -> ~armsOnly
      [] name = "showOnlyArms" -> armsOnly
      [] name = "hideHands" -> scope
      [] name = "fixArmor" -> inPowerArmor
      [] OTHER -> TRUE

\* the bones a stage tests for nullptr before use, returning early when one is absent:
\* setKneePos lines 447-452, walk lines 485-499, fixArmor lines 466-471
CheckedBones(name) ==
    CASE name = "setKneePos" -> {"LLeg_Calf", "RLeg_Calf"}
      [] name = "walk" -> {"LLeg_Thigh", "RLeg_Thigh", "LLeg_Calf", "RLeg_Calf",
                           "LLeg_Foot", "RLeg_Foot"}
      [] name = "fixArmor" -> {"L_Pauldron", "R_Pauldron"}
      [] OTHER -> {}

\* the bones a stage dereferences with no test: setupHead line 267, setBodyPosture lines
\* 404-409, walk line 667, setSingleLeg lines 698-717, setArms line 1083, fixArmor 474-475
DereferencedBones(name) ==
    CASE name = "setupHead" -> {"Head"}
      [] name = "setBodyPosture" -> {"COM", "Neck", "SPINE1", "LLeg_Calf", "RLeg_Calf"}
      [] name = "walk" -> {"SPINE2"}
      [] name = "setSingleLeg_right" -> {"RLeg_Foot", "RLeg_Calf", "RLeg_Thigh"}
      [] name = "setSingleLeg_left" -> {"LLeg_Foot", "LLeg_Calf", "LLeg_Thigh"}
      [] name = "setArms_right" -> {"RArm_UpperArm"}
      [] name = "setArms_left" -> {"LArm_UpperArm"}
      [] name = "fixArmor" -> {"LArm_UpperArm", "RArm_UpperArm"}
      [] OTHER -> {}

FrameInit ==
    /\ missing = {}
    /\ armsOnly = FALSE
    /\ framePc = 0
    /\ crashed = FALSE
    /\ trace = <<>>

FrameRunning == framePc \in 1..Len(Pipeline) /\ ~crashed
FrameDone == framePc = Len(Pipeline) + 1 /\ ~crashed

\* initializeNodes (lines 63-92) on a skeleton lacking the bones m, then the first
\* statements of onFrameUpdate (lines 162-170)
LoadSkeleton(m, ao) ==
    /\ framePc = 0
    /\ missing' = m
    /\ armsOnly' = ao
    /\ framePc' = 1
    /\ UNCHANGED <<crashed, trace, walkVars, legVars, armVars, cfgVars, auxVars>>

\* updateDownFromRoot(): the world transforms are recomputed from the locals
UpdateDownFromRoot ==
    /\ FrameRunning
    /\ Pipeline[framePc] = "updateDownFromRoot"
    /\ trace' = Append(trace, "updateDownFromRoot")
    /\ framePc' = framePc + 1
    /\ UNCHANGED <<missing, armsOnly, crashed, walkVars, legVars, armVars, cfgVars, auxVars>>

\* the condition guarding the call is false: onFrameUpdate goes on to the next statement
StageNotCalled(hideHead, scope) ==
    /\ FrameRunning
    /\ Pipeline[framePc] # "updateDownFromRoot"
    /\ ~StageCalled(Pipeline[framePc], hideHead, scope)
    /\ framePc' = framePc + 1
    /\ UNCHANGED <<missing, armsOnly, crashed, trace, walkVars, legVars, armVars, cfgVars, auxVars>>

\* the stage finds one of the bones it tests absent and returns
StageReturnsEarly(hideHead, scope) ==
    /\ FrameRunning
    /\ Pipeline[framePc] # "updateDownFromRoot"
    /\ StageCalled(Pipeline[framePc], hideHead, scope)
    /\ CheckedBones(Pipeline[framePc]) \cap missing # {}
    /\ trace' = Append(trace, Pipeline[framePc])
    /\ framePc' = framePc + 1
    /\ UNCHANGED <<missing, armsOnly, crashed, walkVars, legVars, armVars, cfgVars, auxVars>>

\* the stage has every bone it uses and runs
StageRuns(hideHead, scope) ==
    /\ FrameRunning
    /\ Pipeline[framePc] # "updateDownFromRoot"
    /\ StageCalled(Pipeline[framePc], hideHead, scope)
    /\ CheckedBones(Pipeline[framePc]) \cap missing = {}
    /\ DereferencedBones(Pipeline[framePc]) \cap missing = {}
    /\ trace' = Append(trace, Pipeline[framePc])
    /\ framePc' = framePc + 1
    /\ UNCHANGED <<missing, armsOnly, crashed, walkVars, legVars, armVars, cfgVars, auxVars>>

\* the stage passes its tests and dereferences a null bone pointer: undefined behaviour,
\* the frame either stops there (crash = TRUE) or goes on with whatever was read
StageDereferencesNull(hideHead, scope, crash) ==
    /\ FrameRunning
    /\ Pipeline[framePc] # "updateDownFromRoot"
    /\ StageCalled(Pipeline[framePc], hideHead, scope)
    /\ CheckedBones(Pipeline[framePc]) \cap missing = {}
    /\ DereferencedBones(Pipeline[framePc]) \cap missing # {}
    /\ trace' = Append(trace, Pipeline[framePc])
    /\ crashed' = crash
    /\ framePc' = IF crash THEN framePc ELSE framePc + 1
    /\ UNCHANGED <<missing, armsOnly, walkVars, legVars, armVars, cfgVars, auxVars>>

FrameNext ==
    \/ \E m \in MissingSets, ao \in BOOLEAN : LoadSkeleton(m, ao)
    \/ UpdateDownFromRoot
    \/ \E hideHead \in BOOLEAN, scope \in BOOLEAN : StageNotCalled(hideHead, scope)
    \/ \E hideHead \in BOOLEAN, scope \in BOOLEAN : StageReturnsEarly(hideHead, scope)
    \/ \E hideHead \in BOOLEAN, scope \in BOOLEAN : StageRuns(hideHead, scope)
    \/ \E hideHead \in BOOLEAN, scope \in BOOLEAN, crash \in BOOLEAN :
          StageDereferencesNull(hideHead, scope, crash)

-----------------------------------------------------------------------------
(* The triangle of the two solvers on its own: setSingleLeg lines 716-740 and setArms *)
(* lines 1138-1150, 1236-1240; lengths and distances in tenths of a unit              *)

\* segment lengths and target distances (the distance is at least 0.1 in both solvers)
SegLens == {1, 50, 180, 316, 525}
TargetDists == {1, 2, 100, 265, 400, 700, 1500}

\* lines 1144-1150: stretch the upper arm and forearm when the hand is out of reach
ArmStretch(upper, forearm, hs) ==
    IF hs > upper + forearm
    THEN LET diff == hs - upper - forearm
             forearmPart == (forearm * diff) \div (forearm + upper)
         IN [upper |-> upper + (diff - forearmPart) + 1, forearm |-> forearm + forearmPart + 1]
    ELSE [upper |-> upper, forearm |-> forearm]

\* line 1236: acosf((forearmLen^2 + hsLen^2 - upperLen^2) / (2 forearmLen hsLen)) is NaN
WristAcosIsNaN(upper, forearm, hs) ==
    Abs(forearm * forearm + hs * hs - upper * upper) > 2 * forearm * hs

\* lines 1236-1240: the segment lengths the elbow is placed with
ArmSolveLens(upperOrig, forearmOrig, hs) ==
    LET s == ArmStretch(upperOrig, forearmOrig, hs)
    IN IF WristAcosIsNaN(s.upper, s.forearm, hs)
       THEN [upper |-> (upperOrig + forearmOrig) \div 2,
             forearm |-> (upperOrig + forearmOrig) \div 2]
       ELSE s

NoSolve == [n |-> 0, solver |-> "none", a |-> 0, b |-> 0, d |-> 0,
            stretchedA |-> 0, stretchedB |-> 0, usedA |-> 0, usedB |-> 0]

SolveInit == sv = NoSolve

\* the leg solver's triangle for thigh a, calf b and foot-to-hip distance d
SolveLegTriangle(a, b, d) ==
    /\ sv' = [n |-> 1, solver |-> "leg", a |-> a, b |-> b, d |-> d,
              stretchedA |-> Stretch(a, b, d).thigh, stretchedB |-> Stretch(a, b, d).calf,
              usedA |-> SolveLens(a, b, d).thigh, usedB |-> SolveLens(a, b, d).calf]
    /\ UNCHANGED <<coreVars, treeVars, resetVars, mapVars, poseVars, neckVars, gunVars, setupVars>>

\* the arm solver's triangle for upper arm a, forearm b and hand-to-shoulder distance d,
\* reached when the hand passes the reach test of line 1140
SolveArmTriangle(a, b, d) ==
    /\ ~(100 * d > 225 * (a + b))
    /\ sv' = [n |-> 1, solver |-> "arm", a |-> a, b |-> b, d |-> d,
              stretchedA |-> ArmStretch(a, b, d).upper,
              stretchedB |-> ArmStretch(a, b, d).forearm,
              usedA |-> ArmSolveLens(a, b, d).upper, usedB |-> ArmSolveLens(a, b, d).forearm]
    /\ UNCHANGED <<coreVars, treeVars, resetVars, mapVars, poseVars, neckVars, gunVars, setupVars>>

SolveNext ==
    \/ \E a \in SegLens, b \in SegLens, d \in TargetDists : SolveLegTriangle(a, b, d)
    \/ \E a \in SegLens, b \in SegLens, d \in TargetDists : SolveArmTriangle(a, b, d)

-----------------------------------------------------------------------------
(* The flattened bone tree and the loop of setHandPose: lines 1438-1488.  Transforms *)
(* are planar: a position <<x, y>>, a rotation in quarter turns, a scale             *)

\* the array: 1 the root, 2 a hand, 3 and 4 two bones of one of its fingers
TreeNodes == 1..4
ParPos == <<0, 1, 2, 3>>
FingerNodes == {3, 4}
QuarterTurns == 0..3

\* the local transforms restored at the start of the frame
BindLocal == [i \in TreeNodes |->
                [pos |-> IF i = 1 THEN <<0, 0>> ELSE <<3, 0>>, rot |-> 0,
                 scale |-> IF i = 1 THEN 2 ELSE 1]]

\* NiMatrix43 * NiPoint3 for a rotation by r quarter turns
Rotate(r, v) ==
    CASE r = 0 -> v
      [] r = 1 -> <<-v[2], v[1]>>
      [] r = 2 -> <<-v[1], -v[2]>>
      [] OTHER -> <<v[2], -v[1]>>

\* lines 1476-1485: world position and rotation of a node from its parent's world
\* transform and its own local transform; the world scale is not written
ChildWorld(parentWorld, local, oldWorld) ==
    [pos |-> <<parentWorld.pos[1] + Rotate(parentWorld.rot, local.pos)[1] * parentWorld.scale,
               parentWorld.pos[2] + Rotate(parentWorld.rot, local.pos)[2] * parentWorld.scale>>,
     rot |-> (parentWorld.rot + local.rot) % 4,
     scale |-> oldWorld.scale]

\* updateDownFromRoot: the world transforms that follow from the locals, root first
RECURSIVE WorldsFrom(_, _, _)
WorldsFrom(local, world, i) ==
    IF i > Len(ParPos) THEN world
    ELSE WorldsFrom(local,
                    [world EXCEPT ![i] =
                        IF ParPos[i] = 0
                        THEN [pos |-> local[i].pos, rot |-> local[i].rot, scale |-> local[i].scale]
                        ELSE [pos |-> ChildWorld(world[ParPos[i]], local[i], world[i]).pos,
                              rot |-> ChildWorld(world[ParPos[i]], local[i], world[i]).rot,
                              scale |-> world[ParPos[i]].scale * local[i].scale]],
                    i + 1)

ZeroWorld == [i \in TreeNodes |-> [pos |-> <<0, 0>>, rot |-> 0, scale |-> 1]]

\* the world transforms after the frame's last updateDownFromRoot (line 224)
SceneWorld(local) == WorldsFrom(local, ZeroWorld, 1)

\* lines 1440-1487: the loop over the array from position i on; pose gives the rotation
\* the hand pose sets for each finger bone, ref tells which nodes have a refNode, scene
\* holds the refNodes' world transforms
RECURSIVE HandPosePass(_, _, _, _, _)
HandPosePass(t, pose, ref, scene, i) ==
    IF i > Len(ParPos) THEN t
    ELSE LET local == IF i \in FingerNodes
                      THEN [t.local[i] EXCEPT !.rot = pose[i], !.pos = BindLocal[i].pos]
                      ELSE t.local[i]
             world == IF ref[i] THEN scene[i]
                      ELSE ChildWorld(t.world[ParPos[i]], local, t.world[i])
         IN HandPosePass([local |-> [t.local EXCEPT ![i] = local],
                          world |-> [t.world EXCEPT ![i] = world]],
                         pose, ref, scene, i + 1)

NoTree == [loaded |-> FALSE, posed |-> FALSE, ref |-> [i \in TreeNodes |-> TRUE],
           local |-> BindLocal, world |-> SceneWorld(BindLocal)]

TreeInit == bt = NoTree

\* the skeleton is loaded: which nodes of the array have a scene-graph node is the
\* model's, the root always has one
LoadTree(ref) ==
    /\ ~bt.loaded
    /\ ref[1]
    /\ bt' = [bt EXCEPT !.loaded = TRUE, !.ref = ref]
    /\ UNCHANGED <<coreVars, solveVars, resetVars, mapVars, poseVars, neckVars, gunVars, setupVars>>

\* setHandPose after the frame's updateDownFromRoot calls
SetHandPose(pose) ==
    /\ bt.loaded
    /\ ~bt.posed
    /\ LET t == HandPosePass([local |-> BindLocal, world |-> bt.world], pose, bt.ref,
                             SceneWorld(BindLocal), 1)
       IN bt' = [bt EXCEPT !.posed = TRUE, !.local = t.local, !.world = t.world]
    /\ UNCHANGED <<coreVars, solveVars, resetVars, mapVars, poseVars, neckVars, gunVars, setupVars>>

TreeNext ==
    \/ \E ref \in [TreeNodes -> BOOLEAN] : LoadTree(ref)
    \/ \E pose \in [FingerNodes -> QuarterTurns] : SetHandPose(pose)

-----------------------------------------------------------------------------
(* initSkeletonNodesDefaults and restoreNodesToDefault: lines 121-134 and 256-260.   *)
(* A local transform is [pos, rot, scale]; pos and rot 0 stand for the bind values   *)

\* bones of the default-transform map (lines 1554-1618) and a bone outside it
ResetBones == {"Root", "RArm_Collarbone"}
OtherBones == {"RArm_Finger11"}
AllBones == ResetBones \cup OtherBones
ScaleValues == {1, 2, 5}
\* what a stage leaves in a bone: a pose away from the bind pose, with some scale
PosedLocals == {[pos |-> 1, rot |-> 1, scale |-> sc] : sc \in ScaleValues}
\* the local scales of the nodes when the defaults are collected
InitScales == {[b \in AllBones |-> sc] : sc \in {1, 2}}

\* the restore that keeps the scale the bone has when it runs
RestoredKeepScale(stored, local) == [stored EXCEPT !.scale = local.scale]

\* line 258: boneNode->m_localTransform = resetTransform
RestoredLocal(stored, local) == stored

NoReset == [loaded |-> FALSE, restored |-> FALSE, writes |-> 0, found |-> {},
            stored |-> [b \in ResetBones |-> [pos |-> 0, rot |-> 0, scale |-> 1]],
            initScale |-> [b \in AllBones |-> 1],
            local |-> [b \in AllBones |-> [pos |-> 1, rot |-> 1, scale |-> 1]],
            pre |-> [b \in AllBones |-> [pos |-> 1, rot |-> 1, scale |-> 1]]]

ResetInit == rs = NoReset

\* initSkeletonNodesDefaults: found are the bones of the map the skeleton has, scale the
\* local scales of the nodes at that time
InitSkeletonNodesDefaults(found, scale) ==
    /\ ~rs.loaded
    /\ rs' = [rs EXCEPT !.loaded = TRUE, !.found = found,
                        !.local = [b \in AllBones |-> [pos |-> 1, rot |-> 1, scale |-> scale[b]]],
                        !.initScale = scale,
                        !.stored = [b \in ResetBones |->
                                      [pos |-> 0, rot |-> 0, scale |-> scale[b]]]]
    /\ UNCHANGED <<coreVars, solveVars, treeVars, mapVars, poseVars, neckVars, gunVars, setupVars>>

\* a stage of the frame, or the game, writes the local transform of a bone the skeleton
\* has: setBodyUnderHMD line 396, showOnlyArms lines 1353-1360, the IK stages
WriteLocal(b, t) ==
    /\ rs.loaded
    /\ rs.writes < MaxStageWrites
    /\ b \in rs.found \cup OtherBones
    /\ rs' = [rs EXCEPT !.local[b] = t, !.writes = rs.writes + 1, !.restored = FALSE]
    /\ UNCHANGED <<coreVars, solveVars, treeVars, mapVars, poseVars, neckVars, gunVars, setupVars>>

\* restoreNodesToDefault
RestoreNodesToDefault ==
    /\ rs.loaded
    /\ ~rs.restored
    /\ rs' = [rs EXCEPT !.restored = TRUE, !.pre = rs.local,
                        !.local = [b \in AllBones |->
                                     IF b \in rs.found
                                     THEN RestoredLocal(rs.stored[b], rs.local[b])
                                     ELSE rs.local[b]]]
    /\ UNCHANGED <<coreVars, solveVars, treeVars, mapVars, poseVars, neckVars, gunVars, setupVars>>

ResetNext ==
    \/ \E found \in SUBSET ResetBones, scale \in InitScales :
          InitSkeletonNodesDefaults(found, scale)
    \/ \E b \in AllBones, t \in PosedLocals : WriteLocal(b, t)
    \/ RestoreNodesToDefault

-----------------------------------------------------------------------------
(* initBoneTreeMap and getBoneWorldTransform: lines 136-146 and 43-45.               *)
(* Indices are 0-based as in the code; the transform of the bone at index i is       *)
(* transforms[i + 1] of the model                                                    *)

BoneNames == {"Root", "Head", "RArm_Finger23"}
MaxTreeLen == 2
\* no entry for the name in _boneTreeMap
Absent == -1
\* the flattened trees: one to MaxTreeLen named transforms
BoneTrees == UNION {[1..n -> BoneNames] : n \in 1..MaxTreeLen}

\* lines 141-145: insert keeps the first index of a name
RECURSIVE InsertAll(_, _, _)
InsertAll(m, names, i) ==
    IF i > Len(names) THEN m
    ELSE InsertAll(IF m[names[i]] = Absent THEN [m EXCEPT ![names[i]] = i - 1] ELSE m,
                   names, i + 1)

\* _boneTreeMap[boneName]: operator[] adds a value-initialized entry for a new key
MapSubscript(m, name) == IF m[name] = Absent THEN [m EXCEPT ![name] = 0] ELSE m

NoMap == [loaded |-> FALSE, map |-> [n \in BoneNames |-> Absent], vec |-> <<>>,
          world |-> <<>>, lookups |-> 0, name |-> "", wasAbsent |-> FALSE,
          preMap |-> [n \in BoneNames |-> Absent],
          result |-> [notFound |-> FALSE, world |-> 0]]

MapInit == bm = NoMap

\* initBoneTreeMap over a tree whose i-th world transform is the value 10 * i
InitBoneTreeMap(names) ==
    /\ ~bm.loaded
    /\ bm' = [bm EXCEPT !.loaded = TRUE,
                        !.map = InsertAll([n \in BoneNames |-> Absent], names, 1),
                        !.vec = names,
                        !.world = [i \in 1..Len(names) |-> 10 * i]]
    /\ UNCHANGED <<coreVars, solveVars, treeVars, resetVars, poseVars, neckVars, gunVars, setupVars>>

\* getBoneWorldTransform(name): the returned NiTransform carries no "not found" mark
GetBoneWorldTransform(name) ==
    /\ bm.loaded
    /\ bm.lookups < MaxLookups
    /\ LET m == MapSubscript(bm.map, name) IN
       bm' = [bm EXCEPT !.lookups = bm.lookups + 1, !.name = name,
                        !.wasAbsent = (bm.map[name] = Absent),
                        !.preMap = bm.map, !.map = m,
                        !.result = [notFound |-> FALSE, world |-> bm.world[m[name] + 1]]]
    /\ UNCHANGED <<coreVars, solveVars, treeVars, resetVars, poseVars, neckVars, gunVars, setupVars>>

MapNext ==
    \/ \E names \in BoneTrees : InitBoneTreeMap(names)
    \/ \E name \in BoneNames : GetBoneWorldTransform(name)

-----------------------------------------------------------------------------
(* calculateHandPose and the per-bone part of setHandPose: lines 1381-1423 and        *)
(* 1444-1461. A rotation is one angle in hundredths of a degree, an interpolation     *)
(* factor is in thousandths, the frame time in milliseconds                           *)

FingerBones == {"RArm_Finger11", "RArm_Finger12", "RArm_Finger13", "RArm_Finger21",
                "LArm_Finger11"}
\* handOpen[bone].rot and handClosed[bone].rot
HandOpenRot(bone) == IF bone = "RArm_Finger21" THEN 1000 ELSE 500
HandClosedRot(bone) == IF bone = "RArm_Finger21" THEN 7000 ELSE 4500
\* the bone's transform in the first-person bone tree
FirstPersonRot == 4321
\* name[0] == 'L'
IsLeft(bone) == bone \in {"LArm_Finger11"}
\* bone.find("Finger1") != npos, and the two names the thumb-up branch gives a rotation
ContainsFinger1(bone) == bone \in {"RArm_Finger11", "RArm_Finger12", "RArm_Finger13",
                                   "LArm_Finger11"}
ContainsFinger11(bone) == bone \in {"RArm_Finger11", "LArm_Finger11"}
ContainsFinger13(bone) == bone \in {"RArm_Finger13"}
\* what a Quaternion holds that no branch assigned
UnsetRots == {0, 777}

\* q.slerp(t, target): q moves the fraction t of the way to target
Slerp(q, target, t) ==
    IF target >= q THEN q + ((t * (target - q)) \div 1000)
    ELSE q - ((t * (q - target)) \div 1000)

\* the smoothing factor without the clamp
BlendUnclamped(dt) == 7 * dt

\* line 1420: blend = clamp(_frameTime * 7, 0, 1)
Blend(dt) == Clamp(7 * dt, 0, 1000)

\* line 1452: grip and trigger touched, touchpad not touched
ThumbUp(in) == "Grip" \in in.touched /\ "Trigger" \in in.touched
               /\ "Touchpad" \notin in.touched

\* line 1454: _closedHand[name]
ClosedHand(in) == in.channel \in in.touched

\* lines 1396-1405: the rotations setEulerAngles builds, applied to the open pose
ThumbUpRot(bone) ==
    IF ContainsFinger11(bone)
    THEN HandOpenRot(bone) + (IF IsLeft(bone) THEN -1 ELSE 1) * 2865
    ELSE HandOpenRot(bone) - 3500

\* lines 1386-1417: the branch taken and the target qt it leaves; unset is a value of
\* UnsetRots
PoseTarget(in, unset) ==
    IF in.override
    THEN [branch |-> "override",
          rot |-> Slerp(HandClosedRot(in.bone), HandOpenRot(in.bone),
                        Clamp(in.val, 0, 1000))]
    ELSE IF ThumbUp(in) /\ ContainsFinger1(in.bone)
    THEN IF ContainsFinger11(in.bone) \/ ContainsFinger13(in.bone)
         THEN [branch |-> "thumbUp", rot |-> ThumbUpRot(in.bone)]
         ELSE [branch |-> "unset", rot |-> unset]
    ELSE IF ClosedHand(in)
    THEN [branch |-> "closed", rot |-> HandClosedRot(in.bone)]
    ELSE [branch |-> "open",
          rot |-> IF in.channel = "Grip"
                  THEN Slerp(HandClosedRot(in.bone), HandOpenRot(in.bone), 1000 - in.grip)
                  ELSE HandOpenRot(in.bone)]

\* the bypass test without the hand
BypassAnyHand(in) == in.weapon /\ ~in.pipboyOn /\ ~in.operating

\* line 1456
Bypass(in) == in.weapon /\ ~in.pipboyOn /\ ~in.operating
              /\ ~(IsLeft(in.bone) # in.leftHanded)

\* ulButtonTouched, as the set of touched channels
TouchedSets == {{}, {"Grip"}, {"Grip", "Trigger"}, {"Grip", "Trigger", "Touchpad"}}

HandInputs ==
    [bone : FingerBones, channel : {"Grip", "Trigger"},
     override : {FALSE}, val : {0}, touched : TouchedSets, grip : {300},
     weapon : BOOLEAN, pipboyOn : BOOLEAN, operating : BOOLEAN, leftHanded : BOOLEAN,
     fpHas : BOOLEAN]
    \cup
    [bone : FingerBones, channel : {"Grip", "Trigger"},
     override : {TRUE}, val : {400, 1500}, touched : TouchedSets, grip : {300},
     weapon : BOOLEAN, pipboyOn : BOOLEAN, operating : BOOLEAN, leftHanded : BOOLEAN,
     fpHas : BOOLEAN]
PoseFrameTimes == {100}

\* the inputs of the smoothing runs: no override, the weapon not drawn
SmoothInputs ==
    [bone : {"RArm_Finger21", "RArm_Finger11"}, channel : {"Grip"},
     override : {FALSE}, val : {0}, touched : {{}, {"Grip"}, {"Grip", "Trigger"}},
     grip : {300}, weapon : {FALSE}, pipboyOn : {FALSE}, operating : {FALSE},
     leftHanded : {FALSE}, fpHas : {TRUE}]
SmoothFrameTimes == {11, 100, 143, 200}

NoPose == [set |-> FALSE, called |-> FALSE,
           in |-> [bone |-> "RArm_Finger21", channel |-> "Grip", override |-> FALSE,
                   val |-> 0, touched |-> {}, grip |-> 300, weapon |-> FALSE,
                   pipboyOn |-> FALSE, operating |-> FALSE, leftHanded |-> FALSE,
                   fpHas |-> TRUE],
           rot |-> 0, prev |-> 0, dt |-> 0, path |-> "none", branch |-> "none",
           target |-> 0]

PoseInit == hp = NoPose /\ poseFrames = 0

\* the controller and game state of the run; line 85: _handBones = handOpen
SetHandInputs(in) ==
    /\ ~hp.set
    /\ hp' = [hp EXCEPT !.set = TRUE, !.in = in, !.rot = HandOpenRot(in.bone)]
    /\ UNCHANGED <<coreVars, solveVars, treeVars, resetVars, mapVars, poseFrames, neckVars, gunVars, setupVars>>

\* lines 1456-1461 for the bone: copy1StPerson or calculateHandPose
PoseFingerBone(dt) ==
    /\ hp.set
    /\ IF Bypass(hp.in)
       THEN hp' = [hp EXCEPT !.called = TRUE, !.dt = dt, !.prev = hp.rot,
                             !.path = "bypass", !.branch = "none",
                             !.rot = IF hp.in.fpHas THEN FirstPersonRot ELSE hp.rot]
       ELSE \E unset \in UnsetRots :
              LET t == PoseTarget(hp.in, unset) IN
              hp' = [hp EXCEPT !.called = TRUE, !.dt = dt, !.prev = hp.rot,
                               !.path = "procedural", !.branch = t.branch,
                               !.target = t.rot,
                               !.rot = Slerp(hp.rot, t.rot, Blend(dt))]
    /\ UNCHANGED <<coreVars, solveVars, treeVars, resetVars, mapVars, neckVars, gunVars, setupVars>>

PoseFrame(dt) ==
    /\ poseFrames < MaxPoseFrames
    /\ PoseFingerBone(dt)
    /\ poseFrames' = poseFrames + 1

SmoothFrame(dt) == PoseFingerBone(dt) /\ UNCHANGED poseFrames

PoseNext ==
    \/ \E in \in HandInputs : SetHandInputs(in)
    \/ \E dt \in PoseFrameTimes : PoseFrame(dt)

SmoothNext ==
    \/ \E in \in SmoothInputs : SetHandInputs(in)
    \/ SmoothFrame(0)
    \/ \E dt \in SmoothFrameTimes : SmoothFrame(dt)

-----------------------------------------------------------------------------
(* getNeckYaw: lines 286-332. Positions in units, angles in hundredths of a degree,   *)
(* the weight in thousandths; the HMD is upright, so its rotation is the identity     *)

\* atan of n / d for 0 <= n <= d, d > 0
AtanCenti(n, d) ==
    LET t == (n * 1000) \div d
    IN (4500 * t + (1564 * t * (1000 - t)) \div 1000) \div 1000

\* atan2f(a, b)
Atan2Centi(a, b) ==
    IF a = 0 /\ b = 0 THEN 0
    ELSE LET aa == Abs(a)
             bb == Abs(b)
             base == IF aa <= bb THEN AtanCenti(aa, bb) ELSE 9000 - AtanCenti(bb, aa)
             full == IF b >= 0 THEN base ELSE 18000 - base
         IN IF a < 0 THEN -full ELSE full

\* hmdToLeft / hmdToRight, and HmdNode's local position
HandOffsets == {<<-20, 30, -20>>, <<20, 30, -20>>, <<3, 4, 0>>, <<0, -20, 10>>,
                <<40, -20, -10>>, <<-20, 30, 30>>}
HmdLocals == {<<0, 1, 0>>, <<0, 12, 120>>}

\* line 297: vec3Len(v) < 10
ShorterThan10(v) == v[1] * v[1] + v[2] * v[2] + v[3] * v[3] < 100

\* lines 302-318: the weight, in thousandths
YawWeight(l, r) ==
    LET w1 == IF l[3] > 0 THEN Max(1000 - 50 * l[3], 0) ELSE 1000
        w2 == IF r[3] > 0 THEN Max(w1 - 50 * r[3], 0) ELSE w1
    IN IF l[1] > r[1] THEN Max(w2 + 20 * (r[1] - l[1]), 0) ELSE w2

\* lines 320-330: the selected angle
YawAngle(l, r, hl) ==
    LET fwd == <<l[1] + r[1], l[2] + r[2], l[3] + r[3]>>
        anglePrime == Atan2Centi(fwd[1], fwd[2])
        angleSec == Atan2Centi(fwd[1], fwd[3])
        pitchDiff == Atan2Centi(hl[2], hl[3]) - Atan2Centi(fwd[3], fwd[2])
    IN IF Abs(pitchDiff) > 8000 THEN angleSec ELSE anglePrime

\* line 331: clamp(-angleFinal * weight, -50 deg, 50 deg)
YawResult(angle, weight) == Clamp(-((angle * weight) \div 1000), -5000, 5000)

NoYaw == [called |-> FALSE, l |-> Zero3, r |-> Zero3, short |-> FALSE, weight |-> 1000,
          angle |-> 0, result |-> 0]

NeckInit == ny = NoYaw

GetNeckYaw(l, r, hl) ==
    /\ ny' = IF ShorterThan10(l) \/ ShorterThan10(r)
             THEN [called |-> TRUE, l |-> l, r |-> r, short |-> TRUE, weight |-> 1000,
                   angle |-> 0, result |-> 0]
             ELSE [called |-> TRUE, l |-> l, r |-> r, short |-> FALSE,
                   weight |-> YawWeight(l, r), angle |-> YawAngle(l, r, hl),
                   result |-> YawResult(YawAngle(l, r, hl), YawWeight(l, r))]
    /\ UNCHANGED <<coreVars, solveVars, treeVars, resetVars, mapVars, poseVars, gunVars, setupVars>>

NeckNext == \E l \in HandOffsets, r \in HandOffsets, hl \in HmdLocals : GetNeckYaw(l, r, hl)

-----------------------------------------------------------------------------
(* GunReload::Update, StartReloading and SetAmmoMesh: src/src/GunReload.cpp           *)

\* ulButtonPressed of the weapon hand, as the set of pressed buttons
ButtonMasks == {{}, {"Grip"}, {"Trigger"}, {"Grip", "Trigger"}}
\* what one Update finds: the magazine node, the pressed buttons, a full clip, the
\* dropped reference created, the reference's 3D loaded
UpdateInputs == [mag : BOOLEAN, mask : ButtonMasks, clipFull : BOOLEAN, refr : BOOLEAN,
                 mesh : BOOLEAN]

\* the button flag as the grip bit of the mask
GripBit(mask) == "Grip" \in mask

\* line 95: handInput && ButtonMaskFromId(k_EButton_Grip), a logical and
ButtonFlag(mask) == mask # {}

\* lines 33-99: the result of StartReloading and reloadButtonPressed after it
StartReloading(rbp, in) ==
    IF ~in.mag THEN [ok |-> FALSE, rbp |-> rbp]
    ELSE IF ~rbp /\ "Grip" \in in.mask
    THEN IF in.clipFull \/ ~in.refr THEN [ok |-> FALSE, rbp |-> rbp]
         ELSE [ok |-> TRUE, rbp |-> TRUE]
    ELSE [ok |-> FALSE, rbp |-> ButtonFlag(in.mask)]

\* SetAmmoMesh returning true moves on to the next reload phase
AfterAmmoMeshNextPhase(st, ok) == IF ok THEN "newMagReady" ELSE st

\* lines 141-147
AfterAmmoMesh(st, ok) == IF ok THEN "idle" ELSE st

NoUpdate == [n |-> 0, state |-> "idle", rbp |-> FALSE,
             in |-> [mag |-> FALSE, mask |-> {}, clipFull |-> FALSE, refr |-> FALSE,
                     mesh |-> FALSE],
             from |-> "idle", rbpBefore |-> FALSE, called |-> "none", ok |-> FALSE,
             starts |-> 0, startsBefore |-> 0, zeroSeen |-> FALSE, zeroBefore |-> FALSE]

GunInit == gr = NoUpdate

\* GunReload::Update; starts counts the reloads started, up to 2, zeroSeen tells that an
\* idle Update since the last start saw no button pressed
Update(in) ==
    LET sr == StartReloading(gr.rbp, in)
        started == gr.state = "idle" /\ sr.ok
        base == [gr EXCEPT !.n = 1, !.in = in, !.from = gr.state, !.rbpBefore = gr.rbp,
                           !.startsBefore = gr.starts, !.zeroBefore = gr.zeroSeen]
    IN /\ gr' = CASE gr.state = "idle" ->
                       [base EXCEPT !.called = "StartReloading", !.ok = sr.ok,
                                    !.rbp = sr.rbp,
                                    !.state = IF sr.ok THEN "reloadingStart" ELSE "idle",
                                    !.starts = IF sr.ok THEN Min(gr.starts + 1, 2)
                                               ELSE gr.starts,
                                    !.zeroSeen = IF sr.ok THEN FALSE
                                                 ELSE gr.zeroSeen \/ in.mask = {}]
                  [] gr.state = "reloadingStart" ->
                       [base EXCEPT !.called = "SetAmmoMesh", !.ok = in.mesh,
                                    !.state = AfterAmmoMesh(gr.state, in.mesh)]
                  [] OTHER -> [base EXCEPT !.called = "none", !.ok = FALSE]
       /\ UNCHANGED <<coreVars, solveVars, treeVars, resetVars, mapVars, poseVars, neckVars, setupVars>>

GunNext == \E in \in UpdateInputs : Update(in)

-----------------------------------------------------------------------------
(* initializeNodes run again on the same Skeleton: lines 63-92, 121-146. A node is    *)
(* <<scene, bone>>: scene counts the scene graphs the skeleton has been given         *)

NoSetup == [runs |-> 0, scene |-> 0, pa |-> FALSE, tree |-> <<>>, found |-> {},
            map |-> [n \in BoneNames |-> Absent], vec |-> <<>>, defaults |-> <<>>]

SetupInit == sk = NoSetup

\* the entries initSkeletonNodesDefaults appends, in some order, one per found bone
RECURSIVE DefaultEntries(_, _, _)
DefaultEntries(found, scene, pa) ==
    IF found = {} THEN <<>>
    ELSE LET b == CHOOSE x \in found : TRUE
         IN <<[node |-> <<scene, b>>, pa |-> pa]>> \o DefaultEntries(found \ {b}, scene, pa)

\* initializeNodes on the scene graph of the variant pa, whose flattened tree is names
\* and which has the bones found of the reset subset; newScene tells that the scene
\* graph was replaced since the last run
InitializeNodes(names, found, pa, newScene) ==
    /\ sk.runs < MaxInits
    /\ newScene \/ sk.runs > 0
    /\ LET scene == IF newScene THEN sk.scene + 1 ELSE sk.scene IN
       sk' = [runs |-> sk.runs + 1, scene |-> scene, pa |-> pa, tree |-> names,
              found |-> found,
              map |-> InsertAll([n \in BoneNames |-> Absent], names, 1),
              vec |-> names,
              defaults |-> sk.defaults \o DefaultEntries(found, scene, pa)]
    /\ UNCHANGED <<coreVars, solveVars, treeVars, resetVars, mapVars, poseVars, neckVars,
                   gunVars>>

SetupNext ==
    \E names \in BoneTrees, found \in SUBSET ResetBones, pa \in BOOLEAN,
       newScene \in BOOLEAN : InitializeNodes(names, found, pa, newScene)

\* hand damping as configured: off, or on with a translation factor (percent)
DampenSettings == {[on |-> FALSE, pct |-> 0], [on |-> TRUE, pct |-> 0], [on |-> TRUE, pct |-> 50]}

Init ==
    /\ inPowerArmor \in BOOLEAN
    /\ \E d \in DampenSettings : dampenHands = d.on /\ dampenHandsTranslation = d.pct
    /\ WalkInit
    /\ LegInit
    /\ ArmInit
    /\ FrameInit
    /\ SolveInit
    /\ TreeInit
    /\ ResetInit
    /\ MapInit
    /\ PoseInit
    /\ NeckInit
    /\ GunInit
    /\ SetupInit

SpecWalk == Init /\ [][WalkNext]_vars

SpecTurn == Init /\ [][TurnNext]_vars

SpecLeg == Init /\ [][LegNext]_vars

SpecArm == Init /\ [][ArmNext]_vars

SpecFrame == Init /\ [][FrameNext]_vars

SpecSolve == Init /\ [][SolveNext]_vars

SpecTree == Init /\ [][TreeNext]_vars

SpecReset == Init /\ [][ResetNext]_vars

SpecMap == Init /\ [][MapNext]_vars

SpecPose == Init /\ [][PoseNext]_vars

\* the frame loop keeps calling setHandPose, with a frame time above zero
SpecSmooth ==
    /\ Init
    /\ [][SmoothNext]_vars
    /\ WF_vars(\E in \in SmoothInputs : SetHandInputs(in))
    /\ WF_vars(\E dt \in SmoothFrameTimes : SmoothFrame(dt))

SpecNeck == Init /\ [][NeckNext]_vars

SpecGun == Init /\ [][GunNext]_vars

SpecSetup == Init /\ [][SetupNext]_vars

Next == WalkNext \/ LegNext \/ ArmNext \/ FrameNext \/ SolveNext \/ TreeNext \/ ResetNext
           \/ MapNext \/ PoseNext \/ SmoothNext \/ TurnNext \/ NeckNext \/ GunNext \/ SetupNext

Spec == Init /\ [][Next]_vars

-----------------------------------------------------------------------------
(* Claims about walk() *)

WalkCalled == wk.n > 0 /\ ~wk.early

\* C5: a walk() call that starts Idle, with the player not jumping or in the air and a
\* smoothed speed of at least 35, ends Walking with a stepping side picked, that foot's
\* target set to its world position + direction * speed * stepDuration * 1.5 and the other
\* foot's target set to its own world position.
C5_IdleStartsWalking ==
    (WalkCalled /\ wk.start = 0 /\ ~wk.air /\ wk.cur >= 35) =>
        /\ walkingState = 1
        /\ wk.mid.fs \in {1, 2}
        /\ \A f \in {1, 2} :
              wk.mid.tgt[f] =
                 IF f = wk.mid.fs
                 THEN VAdd(FootW(f, inPowerArmor),
                           VScale(wk.dir, (wk.cur * wk.st * 15) \div 10000))
                 ELSE FootW(f, inPowerArmor)

\* the step in flight at the start of the last call has run its planned duration
StepCompleted == wk.before.cst + wk.dt > wk.before.stis

\* C6: from Walking, a frame with smoothed speed below 20 moves the walk state to
\* Stopping, and the state is Idle again only once the step in flight has completed.
C6_StoppingLastsUntilStepEnds ==
    (WalkCalled /\ wk.start = 1 /\ ~wk.air /\ wk.cur < 20) =>
        /\ wk.mid.ws = 2
        /\ (walkingState = 0 => StepCompleted)

\* C7: when the smoothed speed is more than 20 below the previous frame's, the walk state
\* becomes Redirecting; processed with the player not airborne, the stepping side stays
\* as it was, only the stepping foot's target changes (to its world position + direction *
\* speed * stepDuration * 0.1) and the state is Walking again in the same frame.
C7_RedirectingNudgesSteppingFoot ==
    (WalkCalled /\ wk.cur - wk.prev < -20) =>
        /\ wk.trig = 3
        /\ ~wk.air =>
              /\ wk.mid.ws = 1
              /\ walkingState = 1
              /\ wk.mid.fs = wk.before.fs
              /\ \A f \in {1, 2} :
                    wk.mid.tgt[f] =
                       IF f = wk.before.fs
                       THEN VAdd(FootW(f, inPowerArmor),
                                 VScale(wk.dir, (wk.cur * wk.st) \div 10000))
                       ELSE wk.before.tgt[f]

\* a walk() call that started in Idle with previous speed 0 and saw no head displacement
StillCall == WalkCalled /\ wk.start = 0 /\ wk.prev = 0 /\ wk.disp = 0

\* both foot positions are the feet's world positions at root height
FeetLocked ==
    footPos = [f \in {1, 2} |->
                 <<FootW(f, inPowerArmor)[1], FootW(f, inPowerArmor)[2], RootZ>>]

\* C18 as stated: from Idle with previous speed 0, a frame with no horizontal head
\* displacement computes speed 0 and ends in Idle with stepping side 0, step timer 0
\* and both foot positions locked to the feet's world positions at root height.
C18_StillFramesStayIdle ==
    StillCall =>
        /\ wk.cur = 0
        /\ walkingState = 0
        /\ footStepping = 0
        /\ currentStepTime = 0
        /\ FeetLocked

\* C18: from Idle with previous speed 0, a frame with no horizontal head displacement
\* computes speed 0 and ends in Idle with both foot positions locked to the feet's world
\* positions at root height; on the ground the stepping side and the step timer are 0
\* after the frame, in the air they keep the values they had before it.
C18_StillFramesStayIdleFeetLocked ==
    StillCall =>
        /\ wk.cur = 0
        /\ walkingState = 0
        /\ FeetLocked
        /\ ~wk.air => footStepping = 0 /\ currentStepTime = 0
        /\ wk.air => footStepping = wk.before.fs /\ currentStepTime = wk.before.cst

C18_Witness ==
    /\ StillCall
    /\ wk.air
    /\ wk.n >= 4
    /\ footStepping # 0
    /\ FeetLocked

\* the step timer after adding dt exceeds the duration planned when the step started
PlannedStepOver == wk.mid.cst + wk.dt > wk.mid.stis

\* C20: in a frame processed as Walking, the stepping side swaps, the step timer resets
\* to 0 and the other foot gets a new target exactly when the step timer, after adding
\* dt, exceeds the planned duration of the step in flight; otherwise the stepping side
\* and the other foot's target are unchanged.
C20_SwapWhenPlannedStepOver ==
    (WalkCalled /\ wk.mid.ws = 1 /\ wk.mid.fs \in {1, 2}) =>
        IF PlannedStepOver
        THEN /\ footStepping = 3 - wk.mid.fs
             /\ currentStepTime = 0
        ELSE /\ footStepping = wk.mid.fs
             /\ currentStepTime = wk.mid.cst + wk.dt
             /\ footTarget[3 - wk.mid.fs][1] = wk.mid.tgt[3 - wk.mid.fs][1]
             /\ footTarget[3 - wk.mid.fs][2] = wk.mid.tgt[3 - wk.mid.fs][2]

-----------------------------------------------------------------------------
(* Claims about setSingleLeg() *)

\* C9: after setSingleLeg(side), whatever the foot target (also one farther from the hip
\* than thigh + calf), the knee's local position is no longer than the thigh length and
\* the foot's local position no longer than the calf length the bones had on entry.
C9_LegLengthsCapped ==
    lg.n > 0 =>
        /\ kneeLocalLen[lg.side] <= lg.thighOrig
        /\ footLocalLen[lg.side] <= lg.calfOrig
        /\ lg.thighOrig = BindThigh(inPowerArmor)
        /\ lg.calfOrig = BindCalf(inPowerArmor)

\* a target out of reach was solved with stretched segments
C9_Witness ==
    /\ lg.n > 0
    /\ FtLen(lg.d) > lg.thighOrig + lg.calfOrig
    /\ SolveLens(lg.thighOrig, lg.calfOrig, FtLen(lg.d)).thigh > lg.thighOrig
    /\ kneeLocalLen[lg.side] = lg.thighOrig

-----------------------------------------------------------------------------
(* Claims about setArms() *)

ArmCalled == ar.n > 0 /\ ar.fp

\* C2: after setArms has run for one side with a hand position that has a NaN or an
\* infinite coordinate, every bone of that side's arm chain (collarbone, upper arm,
\* the forearm bones, hand) has the local transform it had before the call.
C2_NonFiniteHandLeavesArm ==
    (ArmCalled /\ NonFiniteVec(ar.handPos)) => armLocal[ar.side] = ar.before

C2_Witness ==
    /\ ArmCalled
    /\ IsNaN(ar.handPos[1])
    /\ ar.outcome = "invalid"
    /\ armLocal[ar.side] = ar.before

\* the hand's distance from the shoulder, from the recorded hand position
HandDistance == VLen(<<ar.handPos[1].v, ar.handPos[2].v, ar.handPos[3].v>>)

\* C3: when the hand is more than 200 units from the shoulder, or more than 2.25 times
\* the bind upper-arm plus forearm length, setArms leaves every bone of that arm, the
\* collarbone included, with the local transform it had before the call.
C3_OutOfReachLeavesEveryBone ==
    (/\ ArmCalled
     /\ ~NonFiniteVec(ar.handPos)
     /\ \/ HandDistance > 20000
        \/ 100 * HandDistance >
             225 * (OriginalUpperLen(inPowerArmor) + OriginalForearmLen(inPowerArmor)))
    => armLocal[ar.side] = ar.before

\* the tracked position of the call is finite and within both reach limits
TrackedInRange ==
    /\ ~NonFiniteVec(ar.tracked)
    /\ LET d == VLen(<<ar.tracked[1].v, ar.tracked[2].v, ar.tracked[3].v>>)
       IN /\ d <= 20000
          /\ 100 * d <=
               225 * (OriginalUpperLen(inPowerArmor) + OriginalForearmLen(inPowerArmor))

\* C4: a frame whose tracked hand position is non-finite suppresses the arm solve on that
\* frame only: on the next frame of that side, a tracked position that is finite and in
\* range is not rejected as invalid, whatever the hand-damping setting.
C4_NonFiniteFrameDoesNotOutlast ==
    (ArmCalled /\ ar.afterNonFinite /\ TrackedInRange) => ar.outcome = "solved"

\* C10: after a setArms call that reaches the solve, the stored twist angle of the side
\* is A + 0.25 * (T - A), A the angle stored before the call and T the blended raw twist
\* of the frame, and the elbow swivel is computed from that stored value.
C10_TwistSmoothedByQuarter ==
    (ArmCalled /\ ar.outcome = "solved") =>
        /\ prevAngle[IF ar.side = "left" THEN 0 ELSE 1] = ar.A + (ar.T - ar.A) \div 4
        /\ ar.twistUsed = prevAngle[IF ar.side = "left" THEN 0 ELSE 1]

C10_Witness ==
    /\ ArmCalled
    /\ ar.outcome = "solved"
    /\ ar.A # 0
    /\ ar.T # ar.A
    /\ prevAngle[IF ar.side = "left" THEN 0 ELSE 1] # ar.T

-----------------------------------------------------------------------------
(* Claims about onFrameUpdate() *)

\* C1: whatever subset of the skeleton's bones is missing, the per-frame update runs to
\* completion: no stage dereferences a bone it has not tested for presence, so the
\* frame never stops on a null bone pointer.
C1_FrameSurvivesMissingBones == ~crashed

\* the stages the claimed order names, and the full world update between them
OrderedStages == {"restoreNodesToDefault", "setBodyUnderHMD", "setBodyPosture", "walk",
                  "setSingleLeg_right", "setSingleLeg_left", "setArms_right",
                  "setArms_left", "setHandPose", "updateDownFromRoot"}
IsOrderedStage(name) == name \in OrderedStages
StageTrace == SelectSeq(trace, IsOrderedStage)

\* C8: a completed frame runs reset, orientation and body placement, walk cycle, leg IK
\* (right, left), arm IK (right, left), hand pose in that order.  A full world-transform
\* update follows the reset, the body placement, the body posture, the leg IK and the
\* arm IK, and one more precedes the hand pose; none runs between the walk cycle and
\* the leg IK, and none after the hand pose.
C8_StageOrderAndUpdates ==
    FrameDone =>
        StageTrace =
            <<"restoreNodesToDefault", "updateDownFromRoot",
              "setBodyUnderHMD", "updateDownFromRoot",
              "setBodyPosture", "updateDownFromRoot">>
            \o (IF armsOnly THEN <<>> ELSE <<"walk">>)
            \o <<"setSingleLeg_right", "setSingleLeg_left", "updateDownFromRoot",
                 "setArms_right", "setArms_left", "updateDownFromRoot",
                 "updateDownFromRoot", "setHandPose">>

C8_Witness ==
    /\ FrameDone
    /\ ~armsOnly
    /\ \E i \in 1..(Len(StageTrace) - 1) :
          StageTrace[i] = "walk" /\ StageTrace[i + 1] = "setSingleLeg_right"

\* the stages after which the original statement places a world update
UpdatedStages == {"restoreNodesToDefault", "setBodyUnderHMD", "setBodyPosture", "walk",
                  "setSingleLeg_left", "setArms_left"}

\* C8 as stated: the stages run in the fixed order and a world-transform update follows
\* every stage that changes transforms, the walk cycle included (an update between the
\* walk cycle and the leg IK).
C8_UpdateAfterEveryStage ==
    FrameDone =>
        /\ SelectSeq(StageTrace, LAMBDA n : n # "updateDownFromRoot") =
              <<"restoreNodesToDefault", "setBodyUnderHMD", "setBodyPosture">>
              \o (IF armsOnly THEN <<>> ELSE <<"walk">>)
              \o <<"setSingleLeg_right", "setSingleLeg_left", "setArms_right",
                   "setArms_left", "setHandPose">>
        /\ \A i \in 1..Len(StageTrace) :
              StageTrace[i] \in UpdatedStages =>
                  /\ i < Len(StageTrace)
                  /\ StageTrace[i + 1] = "updateDownFromRoot"

-----------------------------------------------------------------------------
(* Claims about the solvers' triangle *)

\* C19: in the leg solver and in the arm solver, for a target distance d of at least 0.1
\* and positive segment lengths, the arccosine that places the knee or elbow gets an
\* argument in [-1, 1]: when d exceeds the sum of the lengths both are stretched so that
\* their sum is d + 0.2, and when the argument is still outside [-1, 1] two equal
\* segments of the average length are used.
C19_SolverAngleIsReal ==
    sv.n > 0 =>
        /\ sv.usedA > 0 /\ sv.usedB > 0
        /\ Abs(sv.usedB * sv.usedB + sv.d * sv.d - sv.usedA * sv.usedA)
              <= 2 * sv.usedB * sv.d
        /\ sv.d > sv.a + sv.b => sv.stretchedA + sv.stretchedB = sv.d + 2
        /\ sv.d <= sv.a + sv.b => sv.stretchedA = sv.a /\ sv.stretchedB = sv.b

C19_Witness ==
    /\ sv.n > 0
    /\ sv.solver = "leg"
    /\ sv.d < sv.a - sv.b
    /\ sv.usedA = sv.usedB
    /\ 2 * sv.usedA >= sv.a + sv.b - 1

-----------------------------------------------------------------------------
(* Claims about the flattened bone tree *)

\* C11: after the loop of setHandPose every node but the root has the world position
\* parent.world.pos + parent.world.rot * (local.pos * parent.world.scale) and the world
\* rotation parent.world.rot * local.rot, for the local transform the node has at the
\* end of the loop; finger bones the loop has re-posed and nodes with a refNode included.
C11_WorldFollowsLocalAfterPass ==
    bt.posed =>
        \A i \in 2..4 :
            /\ bt.world[i].pos[1] =
                  bt.world[i - 1].pos[1]
                    + (CASE bt.world[i - 1].rot = 0 -> bt.local[i].pos[1]
                         [] bt.world[i - 1].rot = 1 -> -bt.local[i].pos[2]
                         [] bt.world[i - 1].rot = 2 -> -bt.local[i].pos[1]
                         [] OTHER -> bt.local[i].pos[2]) * bt.world[i - 1].scale
            /\ bt.world[i].pos[2] =
                  bt.world[i - 1].pos[2]
                    + (CASE bt.world[i - 1].rot = 0 -> bt.local[i].pos[2]
                         [] bt.world[i - 1].rot = 1 -> bt.local[i].pos[1]
                         [] bt.world[i - 1].rot = 2 -> -bt.local[i].pos[2]
                         [] OTHER -> -bt.local[i].pos[1]) * bt.world[i - 1].scale
            /\ bt.world[i].rot = (bt.world[i - 1].rot + bt.local[i].rot) % 4

-----------------------------------------------------------------------------
(* Claims about restoreNodesToDefault *)

\* C12 as stated: the reset gives every found bone of the reset subset its bind position
\* and rotation and leaves its local scale as it was just before the reset, also when
\* the scale was changed after initialization; other bones are not touched.
C12_ResetKeepsCurrentScale ==
    rs.restored =>
        /\ \A b \in rs.found :
              /\ rs.local[b].pos = 0 /\ rs.local[b].rot = 0
              /\ rs.local[b].scale = rs.pre[b].scale
        /\ \A b \in AllBones \ rs.found : rs.local[b] = rs.pre[b]

\* C12: the reset gives every found bone of the reset subset its bind position and
\* rotation and the local scale the bone had when the defaults were collected at
\* initialization, whatever the scale was just before the reset; bones outside the
\* subset, and bones of the subset not found at initialization, are not touched.
C12_ResetRestoresInitScale ==
    rs.restored =>
        /\ \A b \in rs.found :
              /\ rs.local[b].pos = 0 /\ rs.local[b].rot = 0
              /\ rs.local[b].scale = rs.initScale[b]
        /\ \A b \in AllBones \ rs.found : rs.local[b] = rs.pre[b]

C12_Witness ==
    /\ rs.restored
    /\ "Root" \in rs.found
    /\ rs.pre["Root"].scale # rs.initScale["Root"]
    /\ rs.local["Root"].scale = rs.initScale["Root"]
    /\ rs.pre["RArm_Finger11"].scale = 5
    /\ rs.local["RArm_Finger11"].scale = 5

-----------------------------------------------------------------------------
(* Claims about getBoneWorldTransform *)

\* C13: a lookup by a name that is not in the name-to-index map returns a
\* distinguishable "not found" result and never the world transform of an existing bone.
C13_AbsentNameIsNotFound ==
    (bm.lookups > 0 /\ bm.wasAbsent) =>
        /\ bm.result.notFound
        /\ \A i \in 1..Len(bm.world) : bm.result.world # bm.world[i]

\* C14: getBoneWorldTransform is a pure read: for every name, present or absent, the
\* name-to-index map is the same after the call as before it.
C14_LookupIsPureRead ==
    bm.lookups > 0 => bm.map = bm.preMap

-----------------------------------------------------------------------------
(* Claims about calculateHandPose and setHandPose *)

\* the open pose of the bone, blended toward the closed pose by the factor t
OpenTowardClosed(bone, t) ==
    HandOpenRot(bone) + ((t * (HandClosedRot(bone) - HandOpenRot(bone))) \div 1000)

ThumbsUpTouched ==
    {"Grip", "Trigger"} \subseteq hp.in.touched /\ "Touchpad" \notin hp.in.touched

ThumbChain == {"RArm_Finger11", "RArm_Finger12", "RArm_Finger13", "LArm_Finger11"}

\* C15: calculateHandPose picks the target by strict priority: override active -> the
\* open/closed blend by the clamped override value; else thumbs-up touched and the bone
\* in the thumb chain (Finger11, Finger12, Finger13) -> the thumb-up rotation derived
\* from the open pose; else the bone's channel touched -> the closed pose; else the open
\* pose, blended toward closed by the grip value for bones of the grip channel only.
C15_TargetByPriority ==
    (hp.called /\ hp.path = "procedural") =>
        IF hp.in.override
        THEN /\ hp.branch = "override"
             /\ hp.target = OpenTowardClosed(hp.in.bone, 1000 - Clamp(hp.in.val, 0, 1000))
        ELSE IF ThumbsUpTouched /\ hp.in.bone \in ThumbChain
        THEN hp.branch = "thumbUp"
        ELSE IF hp.in.channel \in hp.in.touched
        THEN hp.branch = "closed" /\ hp.target = HandClosedRot(hp.in.bone)
        ELSE /\ hp.branch = "open"
             /\ hp.target = IF hp.in.channel = "Grip"
                            THEN OpenTowardClosed(hp.in.bone, hp.in.grip)
                            ELSE HandOpenRot(hp.in.bone)

DominantHand == IsLeft(hp.in.bone) <=> hp.in.leftHanded

\* C16: a finger bone takes the bypass path (the stored transform is the first-person
\* tree's, where the tree has the bone, and calculateHandPose is not run) exactly when
\* the weapon is visible, the Pipboy is neither on nor operated and the bone is of the
\* dominant hand; in every other case it gets the procedural pose.
C16_BypassExactlyForDominantWeaponHand ==
    hp.called =>
        /\ (hp.path = "bypass") <=>
              (hp.in.weapon /\ ~hp.in.pipboyOn /\ ~hp.in.operating /\ DominantHand)
        /\ hp.path = "bypass" =>
              /\ hp.branch = "none"
              /\ hp.in.fpHas => hp.rot = FirstPersonRot
        /\ hp.path # "bypass" =>
              /\ hp.path = "procedural"
              /\ hp.branch # "none"

C16_Witness ==
    /\ hp.called /\ hp.path = "bypass" /\ hp.in.leftHanded /\ IsLeft(hp.in.bone)
    /\ hp.rot = FirstPersonRot

C16_WitnessOtherHand ==
    /\ hp.called /\ hp.path = "procedural" /\ hp.in.weapon /\ ~hp.in.pipboyOn
    /\ ~hp.in.operating /\ hp.in.leftHanded /\ ~IsLeft(hp.in.bone)

SmoothTol == 13
Distance == Abs(hp.rot - hp.target)
SmoothCase == hp.called /\ hp.path = "procedural" /\ ~hp.in.override

\* a call moved the stored rotation the fraction b = clamp(7 dt, 0, 1) of the way to
\* the target, and all the way when dt >= 1/7 s
C17_StepIsFraction ==
    SmoothCase =>
        /\ Abs(hp.rot - hp.prev) = (Clamp(7 * hp.dt, 0, 1000) * Abs(hp.target - hp.prev)) \div 1000
        /\ Abs(hp.rot - hp.target) <= Abs(hp.prev - hp.target)
        /\ hp.dt >= 143 => hp.rot = hp.target

\* C17: with the override inactive and the inputs fixed, each call moves the stored
\* rotation the fraction clamp(7 dt, 0, 1) of the remaining way to the target; the
\* distance to the target never increases from call to call, the rotation eventually
\* comes within the tolerance when the frame times are above zero, and it equals the
\* target after one call with dt >= 1/7 s.
C17_SmoothingConverges ==
    /\ [](C17_StepIsFraction)
    /\ [][(SmoothCase /\ SmoothCase') => Distance' <= Distance]_vars
    /\ (hp.set ~> (SmoothCase /\ Distance <= SmoothTol))

C17_Witness ==
    /\ SmoothCase /\ hp.dt = 11 /\ hp.in.touched = {"Grip"}
    /\ hp.rot # hp.prev /\ Distance > SmoothTol /\ Distance < Abs(hp.prev - hp.target)

-----------------------------------------------------------------------------
(* Further claims about walk() *)

\* cosine similarity of the frame's direction and the step direction, below 0.9
BelowThreshold == VDot(wk.dir, wk.mid.sd) * 10 < 9

\* C21: while Walking the in-flight target is direction-corrected in a frame only if the
\* cosine similarity of direction and step direction is below 0.9 and the counter is 0
\* at that point; the counter stays in 0..2 (decremented on a below-threshold frame
\* without correction, incremented up to 2 otherwise, 2 after a correction and after
\* Idle -> Walking), so no correction is applied in the two frames after a correction or
\* a step start from Idle.
C21_CorrectionGatedByCounter ==
    /\ delayFrame \in 0..2
    /\ WalkCalled =>
          /\ wk.corr => (wk.mid.ws = 1 /\ BelowThreshold /\ wk.mid.df = 0 /\ delayFrame = 2)
          /\ (wk.mid.ws = 1 /\ ~wk.corr) =>
                delayFrame = IF BelowThreshold THEN wk.mid.df - 1 ELSE Min(wk.mid.df + 1, 2)
          /\ (wk.start = 0 /\ wk.trig = 0 /\ wk.mid.ws = 1) => wk.mid.df = 2
          /\ wk.corr => wk.since = 0
    /\ [][(WalkCalled' /\ wk'.corr) => wk.since >= 2]_vars

C21_Witness ==
    WalkCalled /\ wk.corr /\ wk.n >= 4 /\ delayFrame = 2

C21_WitnessSuppressed ==
    WalkCalled /\ ~wk.corr /\ wk.mid.ws = 1 /\ BelowThreshold /\ wk.mid.df = 1 /\ delayFrame = 0

\* C22: after a walk() call that reaches the speed computation the stored smoothed speed
\* lies in [0, 350]; it is clamp(|displacement| / dt, 0, 350) when the previous stored
\* speed was at most 20 and the mean of that value and the previous speed otherwise.
C22_SmoothedSpeed ==
    (WalkCalled /\ wk.dt > 0) =>
        LET raw == Clamp(wk.disp \div wk.dt, 0, 350) IN
        /\ prevSpeed >= 0 /\ prevSpeed <= 350
        /\ prevSpeed = IF wk.prev <= 20 THEN raw ELSE (raw + wk.prev) \div 2

C22_Witness ==
    /\ WalkCalled /\ wk.prev > 20 /\ wk.disp \div wk.dt > 350
    /\ prevSpeed = (350 + wk.prev) \div 2

C22_WitnessUnsmoothed ==
    WalkCalled /\ wk.prev > 0 /\ wk.prev <= 20 /\ wk.disp \div wk.dt > 350 /\ prevSpeed = 350

\* C25: every walk() call ends Idle or Walking; Stopping and Redirecting are resolved in
\* the frame that enters them, no frame starts in them, and the switch never runs the
\* Stopping case.
C25_EndsIdleOrWalking ==
    /\ walkingState \in {0, 1}
    /\ wk.n > 0 => (wk.start \in {0, 1} /\ wk.trig # 2)

C25_Witness ==
    WalkCalled /\ wk.start = 1 /\ wk.mid.ws = 2 /\ walkingState = 0

C25_WitnessRedirect ==
    WalkCalled /\ wk.start = 1 /\ wk.trig = 3 /\ ~wk.air /\ walkingState = 1

TriggerFired == wk.cur - wk.prev < -20

C26_WitnessStop ==
    WalkCalled /\ wk.start = 1 /\ ~wk.air /\ wk.cur < 20 /\ wk.prev > 20 /\ wk.mid.ws = 2

\* C27: a frame with the player jumping or in the air ends Idle whatever the speed, the
\* previous state or the trigger, with both foot positions at the feet's world positions
\* at root height, and with the smoothed speed updated.
C27_AirFrameEndsIdle ==
    (WalkCalled /\ wk.air) =>
        /\ walkingState = 0
        /\ FeetLocked
        /\ prevSpeed = wk.cur
        /\ wk.cur = CurSpeed(wk.disp, wk.dt, wk.prev)

C27_Witness ==
    /\ WalkCalled /\ wk.air /\ wk.start = 1 /\ wk.trig = 3 /\ wk.cur >= 35
    /\ walkingState = 0 /\ prevSpeed # wk.prev

-----------------------------------------------------------------------------
(* Claims about getNeckYaw *)

\* C23: getNeckYaw returns 0 when either head-to-controller vector is shorter than 10
\* units; otherwise the weight lies in [0, 1] and the returned magnitude is at most
\* weight * 50 degrees (the angle clamped to +/-50 degrees, then scaled by the weight).
C23_YawWithinWeightedClamp ==
    ny.called =>
        /\ (ShorterThan10(ny.l) \/ ShorterThan10(ny.r)) => ny.result = 0
        /\ ny.weight >= 0 /\ ny.weight <= 1000
        /\ Abs(ny.result) * 1000 <= ny.weight * 5000

-----------------------------------------------------------------------------
(* Further claims about setArms *)

\* C28: a side's stored twist angle changes only in a setArms call for that side that
\* does not abort: a call for the other side, and a call that aborts (first-person
\* skeleton missing, non-finite hand, hand too far), leave it as it was.
C28_TwistChangedOnlyBySolvedSameSide ==
    [][\A slot \in {0, 1} :
          prevAngle'[slot] # prevAngle[slot] =>
             /\ ar'.n = 1
             /\ ar'.outcome = "solved"
             /\ slot = (IF ar'.side = "left" THEN 0 ELSE 1)]_vars

C28_Witness ==
    /\ ar.n > 0
    /\ ar.side = "left"
    /\ ar.outcome \in {"noskeleton", "invalid", "toofar"}
    /\ prevAngle[0] # 0
    /\ prevAngle[1] # 0
    /\ prevAngle[0] # prevAngle[1]

C28_WitnessOtherSide ==
    ArmCalled /\ ar.side = "right" /\ ar.outcome = "solved" /\ prevAngle[0] = 0 /\ prevAngle[1] # 0

C28_WitnessNoSkeleton ==
    ar.n > 0 /\ ~ar.fp /\ ar.side = "left" /\ ar.outcome = "noskeleton" /\ prevAngle[0] # 0

-----------------------------------------------------------------------------
(* Claims about GunReload *)

\* C29: starting from idle, Update only visits idle and reloadingStart: from idle it goes
\* to reloadingStart exactly when StartReloading returns true, from reloadingStart back
\* to idle exactly when SetAmmoMesh returns true and otherwise stays; newMagReady and
\* magInserted are never reached.
C29_OnlyIdleAndReloadingStart ==
    /\ gr.state \in {"idle", "reloadingStart"}
    /\ gr.n > 0 =>
          /\ gr.from = "idle" =>
                /\ gr.called = "StartReloading"
                /\ gr.state = (IF gr.ok THEN "reloadingStart" ELSE "idle")
          /\ gr.from = "reloadingStart" =>
                /\ gr.called = "SetAmmoMesh"
                /\ gr.ok = gr.in.mesh
                /\ gr.state = (IF gr.ok THEN "idle" ELSE "reloadingStart")

C29_Witness ==
    gr.n > 0 /\ gr.from = "reloadingStart" /\ gr.ok /\ gr.state = "idle" /\ gr.starts = 2

C29_WitnessStays ==
    gr.n > 0 /\ gr.from = "reloadingStart" /\ ~gr.ok /\ gr.state = "reloadingStart"

ReloadStarted == gr.n > 0 /\ gr.from = "idle" /\ gr.ok

\* C30: a reload is started only in a call where reloadButtonPressed was false and the
\* weapon hand's grip is pressed, and the call sets reloadButtonPressed; between two
\* calls that start a reload there is an idle Update whose pressed-button mask was zero.
C30_ReloadNeedsRelease ==
    ReloadStarted =>
        /\ ~gr.rbpBefore
        /\ "Grip" \in gr.in.mask
        /\ gr.rbp
        /\ gr.startsBefore > 0 => gr.zeroBefore

C30_Witness ==
    ReloadStarted /\ gr.startsBefore = 1 /\ gr.zeroBefore /\ gr.in.mask = {"Grip", "Trigger"}

C30_WitnessHeld ==
    /\ gr.n > 0 /\ gr.from = "idle" /\ ~gr.ok /\ gr.rbpBefore /\ gr.rbp
    /\ gr.in.mask = {"Trigger"} /\ gr.in.mag /\ gr.starts = 1

-----------------------------------------------------------------------------
(* Claims about initializeNodes *)

\* the index the current tree gives a name: the first position holding it, 0-based
FirstIndex(name) ==
    IF \E i \in 1..Len(sk.tree) : sk.tree[i] = name
    THEN (CHOOSE i \in 1..Len(sk.tree) :
             sk.tree[i] = name /\ \A j \in 1..(i - 1) : sk.tree[j] # name) - 1
    ELSE Absent

\* C24: after initializeNodes has run again on a Skeleton the name-to-index map and the
\* index-to-name vector describe exactly the current flattened tree, and the reset set
\* holds exactly one entry per found bone of the current variant, none from an earlier
\* initialization.
C24_ReinitRebuildsFromCurrentScene ==
    sk.runs > 0 =>
        /\ sk.vec = sk.tree
        /\ \A name \in BoneNames : sk.map[name] = FirstIndex(name)
        /\ Len(sk.defaults) = Cardinality(sk.found)
        /\ \A i \in 1..Len(sk.defaults) :
              /\ sk.defaults[i].node[1] = sk.scene
              /\ sk.defaults[i].node[2] \in sk.found
              /\ sk.defaults[i].pa = sk.pa

====
